---- MODULE Spec2Model ----
(***************************************************************************)
(* A model of the pmm_agent package: the template operations (tools/),    *)
(* the evaluation records (models/evaluation.py), the agent factory       *)
(* (agent.py) and the interactive loop (cli.py).                           *)
(*                                                                         *)
(* Text is modelled as a sequence of tokens.  A token is either one       *)
(* character of an input (Alphabet) or one literal chunk of a template    *)
(* (the text between two interpolations of an f-string, or a whole static *)
(* template).  Concatenation, interpolation, str(), repr(), strip() and   *)
(* lower() are computed on these sequences.                                *)
(***************************************************************************)
EXTENDS Integers, Sequences, FiniteSets, TLC

\* ------------------------------------------------------------------------
\* Bounds of the model
\* ------------------------------------------------------------------------
MaxLen == 1
MaxList == 1
MaxCalls == 3
MaxTurns == 2
Over == 1

VARIABLES
    \* the last template operation called: its name, its bound arguments, its result
    op, args, envelope

VARIABLES
    \* a caller that repeats a template operation: how many template operations it
    \* has invoked, the operation it invoked in between (name and task of the
    \* envelope it got), and the envelope of the repeated invocation
    toolCalls, other, again

VARIABLES
    \* agent.py: the module-level flag read from LANGGRAPH_API_URL at import, the
    \* number of create_pmm_agent calls so far, the arguments of the last call and
    \* the keyword arguments it handed to create_deep_agent
    running_in_langgraph_api, factoryCalls, factoryArgs, handed,
    \* agent.py: the module-level lists (EVALUATION_TOOLS, WEB_TOOLS, CREATION_TOOLS,
    \* ALL_TOOLS, and PMM_SUBAGENTS imported from subagents), and the history of the
    \* create_pmm_agent calls: the arguments of each with the tool and subagent lists
    \* it handed over
    registry, factoryLog

VARIABLES
    \* models/evaluation.py: the record class being constructed, the field values
    \* given to its constructor, the outcome ("pending", "ok", "ValidationError"),
    \* the locations the validation error reports and the constructed instance
    cls, data, validation, errors, instance

VARIABLES
    \* cli.py, the process: where control is, how the CLI was started, the value of
    \* ANTHROPIC_API_KEY in the environment and in the .env file, whether the
    \* pmm_agent package has been imported, how many agents have been constructed,
    \* the exit status
    pc, entry, envKey, dotenvKey, packageImported, agentsConstructed, exitStatus,
    \* cli.py, the loop: iterations begun, input() calls answered by a line, the
    \* stripped main input, the quick pick in progress and its stripped fields, the
    \* prompt handed to run_prompt, agent invocations (all, and of this iteration),
    \* what ended the last step, and what the last step printed
    turns, inputsRead, user_input, action, fields, prompt, invocations, turnInvocations,
    ended, printed

VARIABLES
    \* a direct call of one of the functions that invoke an agent (evaluate_homepage,
    \* create_positioning, compare_competitors of agent.py, run_prompt of cli.py):
    \* the function, its arguments, the content of the message it sent to the
    \* agent, what agent.invoke did, and what the function did with it
    caller, callerArgs, sent, received, result

toolVars == <<op, args, envelope>>
callerVars == <<caller, callerArgs, sent, received, result>>
replayVars == <<toolCalls, other, again>>
factoryVars == <<running_in_langgraph_api, factoryCalls, factoryArgs, handed, registry, factoryLog>>
modelVars == <<cls, data, validation, errors, instance>>
procVars == <<pc, entry, envKey, dotenvKey, packageImported, agentsConstructed, exitStatus>>
loopVars == <<turns, inputsRead, user_input, action, fields, prompt, invocations,
              turnInvocations, ended, printed>>
cliVars == <<procVars, loopVars>>
vars == <<toolVars, replayVars, factoryVars, modelVars, cliVars, callerVars>>
notTools == <<replayVars, factoryVars, modelVars, cliVars, callerVars>>
notFactory == <<toolVars, replayVars, modelVars, cliVars, callerVars>>
notModels == <<toolVars, replayVars, factoryVars, cliVars, callerVars>>
notCli == <<toolVars, replayVars, factoryVars, modelVars, callerVars>>
notReplay == <<factoryVars, modelVars, cliVars, callerVars>>
notCallers == <<toolVars, replayVars, modelVars, cliVars>>

\* ------------------------------------------------------------------------
\* Text
\* ------------------------------------------------------------------------
Alphabet == {"a", " "}

RECURSIVE SeqsUpTo(_, _)
SeqsUpTo(S, n) ==
    IF n = 0 THEN {<<>>}
    ELSE LET shorter == SeqsUpTo(S, n - 1)
         IN  shorter \cup {Append(s, c) : s \in shorter, c \in S}

Strings == SeqsUpTo(Alphabet, MaxLen)

\* the elements of a list argument: the empty string and the one-character strings
ListElems == {<<>>} \cup {<<c>> : c \in Alphabet}

Lists == SeqsUpTo(ListElems, MaxList)

\* sub in s (Python's `sub in s` on str)
Contains(s, sub) ==
    \E i \in 0..(Len(s) - Len(sub)) : SubSeq(s, i + 1, i + Len(sub)) = sub

\* ------------------------------------------------------------------------
\* Python values passed to a template operation, and JSON values returned
\* ------------------------------------------------------------------------
PyNone == [t |-> "None", v |-> <<>>]
PyStr(s) == [t |-> "str", v |-> s]
PyList(l) == [t |-> "list", v |-> l]
PyBool(b) == [t |-> "bool", v |-> IF b THEN <<"True">> ELSE <<"False">>]

StrArgs == {PyStr(s) : s \in Strings}
OptStrArgs == {PyNone} \cup StrArgs
ListArgs == {PyList(l) : l \in Lists}
OptListArgs == {PyNone} \cup ListArgs
BoolArgs == {PyBool(TRUE), PyBool(FALSE)}

\* bool(x): None, "" and [] are falsy
Truthy(x) ==
    CASE x.t = "None" -> FALSE
      [] x.t = "bool" -> x.v = <<"True">>
      [] OTHER -> Len(x.v) > 0

\* repr() of a str whose characters need no escaping: the text in single quotes
ReprStr(s) == <<"'">> \o s \o <<"'">>

RECURSIVE JoinRepr(_)
JoinRepr(l) ==
    IF Len(l) = 0 THEN <<>>
    ELSE IF Len(l) = 1 THEN ReprStr(l[1])
    ELSE ReprStr(l[1]) \o <<", ">> \o JoinRepr(Tail(l))

\* repr() of a list of str: "['a', 'b']"
ReprList(l) == <<"[">> \o JoinRepr(l) \o <<"]">>

\* format(x) as an f-string replacement field renders it
Format(x) ==
    CASE x.t = "None" -> <<"None">>
      [] x.t = "list" -> ReprList(x.v)
      [] OTHER -> x.v

\* `x or default` rendered in an f-string
OrDefault(x, default) == IF Truthy(x) THEN Format(x) ELSE default

\* the label without the value
IfGivenLabelOnly(label, x) == IF Truthy(x) THEN <<label>> ELSE <<>>

\* f"{label}{x}" if x else ""
IfGiven(label, x) == IF Truthy(x) THEN <<label>> \o Format(x) ELSE <<>>

JNull == [j |-> "null", v |-> <<>>]
JString(s) == [j |-> "string", v |-> s]
JArray(l) == [j |-> "array", v |-> l]
JBool(b) == [j |-> IF b THEN "true" ELSE "false", v |-> <<>>]

\* json.dumps on one value of the envelope
ToJson(x) ==
    CASE x.t = "None" -> JNull
      [] x.t = "str" -> JString(x.v)
      [] x.t = "list" -> JArray(x.v)
      [] x.t = "bool" -> JBool(x.v = <<"True">>)

\* json.loads on one value of the envelope
FromJson(y) ==
    CASE y.j = "null" -> PyNone
      [] y.j = "string" -> PyStr(y.v)
      [] y.j = "array" -> PyList(y.v)
      [] y.j = "true" -> PyBool(TRUE)
      [] y.j = "false" -> PyBool(FALSE)

\* ------------------------------------------------------------------------
\* tools/evaluation.py
\* ------------------------------------------------------------------------
AssetTypes == {"homepage", "landing_page", "sales_deck", "email", "ad"}
\* a scan that takes the five asset types only
ScanAssetTypesWithoutAll == AssetTypes
ScanAssetTypes == AssetTypes \cup {"all"}
IssueTypes == {"unclear_headline", "jargon_buzzwords", "feature_dump", "no_specificity",
               "clever_over_clear", "weak_cta", "generic_value_prop", "no_competitive_frame"}
\* a value outside every closed set
Unlisted == "webinar"

Literal(S) == {PyStr(<<x>>) : x \in S}
LooseLiteral(S) == Literal(S \cup {Unlisted})

FiveSecondInstructions ==
    << "Analyze this asset and answer:",
       "1. **What do they do?** (clear/partial/unclear)",
       "2. **Who is it for?** (clear/partial/unclear)",
       "3. **What makes it different?** (clear/partial/unclear)",
       "4. **What to do next?** (clear/partial/unclear)",
       "**Final verdict:** PASS (3-4 clear), PARTIAL (1-2 clear), FAIL (0 clear)",
       "Provide specific evidence for each answer." >>

\* the verdict rule the instructions state, by the number of questions judged clear
VerdictRule == [PASS |-> 3..4, PARTIAL |-> 1..2, FAIL |-> {0}]
FiveSecondVerdict(clear) == CHOOSE v \in DOMAIN VerdictRule : clear \in VerdictRule[v]

\* a five-second test that reports the default asset type whatever was given
run_five_second_test_default_type(asset_content, asset_type) ==
    [ task |-> JString(<<"five_second_test">>),
      instructions |-> JString(FiveSecondInstructions),
      asset_content |-> ToJson(asset_content),
      asset_type |-> JString(<<"homepage">>) ]

run_five_second_test(asset_content, asset_type) ==
    [ task |-> JString(<<"five_second_test">>),
      instructions |-> JString(FiveSecondInstructions),
      asset_content |-> ToJson(asset_content),
      asset_type |-> ToJson(asset_type) ]

PositioningInstructions ==
    << "Analyze positioning using the Positioning Canvas:",
       "## 1. TARGET CUSTOMER", "## 2. COMPETITIVE ALTERNATIVE", "## 3. DIFFERENTIATION",
       "## 4. PROBLEM/PAIN", "## ANTI-PATTERNS DETECTED", "## OVERALL POSITIONING SCORE (0-100)" >>

analyze_positioning(asset_content, company_context) ==
    [ task |-> JString(<<"positioning_analysis">>),
      instructions |-> JString(PositioningInstructions),
      asset_content |-> ToJson(asset_content),
      company_context |-> ToJson(company_context) ]

MessagingInstructions ==
    << "Analyze messaging using the 5-layer hierarchy:",
       "## LAYER 1: POSITIONING STATEMENT", "## LAYER 2: VALUE PROPOSITION",
       "## LAYER 3: KEY MESSAGES (Pillars)", "## LAYER 4: PROOF POINTS", "## LAYER 5: MICRO-COPY",
       "## MESSAGING HOUSE ASSESSMENT", "## CLARITY TESTS", "## ANTI-PATTERNS DETECTED",
       "## OVERALL MESSAGING SCORE (0-100)" >>

analyze_messaging(asset_content, target_persona) ==
    [ task |-> JString(<<"messaging_analysis">>),
      instructions |-> JString(MessagingInstructions),
      asset_content |-> ToJson(asset_content),
      target_persona |-> ToJson(target_persona) ]

HomepageStructureInstructions ==
    << "Analyze homepage structure:",
       "## HERO SECTION", "## INFORMATION HIERARCHY", "## CTA STRATEGY", "## SOCIAL PROOF",
       "## ANTI-PATTERNS DETECTED", "## SECTION-BY-SECTION BREAKDOWN",
       "## OVERALL HOMEPAGE SCORE (0-100)" >>

analyze_homepage_structure(asset_content, include_screenshots) ==
    [ task |-> JString(<<"homepage_structure_analysis">>),
      instructions |-> JString(HomepageStructureInstructions),
      asset_content |-> ToJson(asset_content),
      include_screenshots |-> ToJson(include_screenshots) ]

AntiPatternInstructions ==
    << "Scan for PMM anti-patterns:",
       "## CRITICAL (Must Fix Immediately)", "## HIGH PRIORITY (Should Fix)",
       "## MEDIUM PRIORITY", "## SUMMARY" >>

detect_anti_patterns(asset_content, asset_type) ==
    [ task |-> JString(<<"anti_pattern_detection">>),
      instructions |-> JString(AntiPatternInstructions),
      asset_content |-> ToJson(asset_content),
      asset_type |-> ToJson(asset_type) ]

\* the dict rewrite_instructions of generate_rewrite
rewrite_instructions ==
    [ unclear_headline |-> "Rewrite to clearly state WHAT + WHO. No cleverness.",
      jargon_buzzwords |-> "Replace all jargon with customer language. Be specific.",
      feature_dump |-> "Apply 'So what?' to each feature until you reach benefit.",
      no_specificity |-> "Add numbers, timeframes, concrete outcomes.",
      clever_over_clear |-> "Make it boring and clear. State exactly what it does.",
      weak_cta |-> "Make CTA benefit-oriented. What happens when they click?",
      generic_value_prop |-> "Add problem + specific solution + for whom.",
      no_competitive_frame |-> "Add 'Unlike X' or 'Instead of Y' framing." ]

DefaultFixApproach == "Improve clarity and specificity"

\* a lookup that answers every unknown key with the first entry
FixApproachFirstEntry(issue_type) ==
    IF Len(issue_type.v) = 1 /\ issue_type.v[1] \in DOMAIN rewrite_instructions
    THEN rewrite_instructions[issue_type.v[1]]
    ELSE rewrite_instructions["unclear_headline"]

\* a lookup that works for the first invocation only
FixApproachFirstCallOnly(issue_type) ==
    IF toolCalls = 0 /\ Len(issue_type.v) = 1 /\ issue_type.v[1] \in DOMAIN rewrite_instructions
    THEN rewrite_instructions[issue_type.v[1]]
    ELSE DefaultFixApproach

\* rewrite_instructions.get(issue_type, "Improve clarity and specificity")
FixApproach(issue_type) ==
    IF Len(issue_type.v) = 1 /\ issue_type.v[1] \in DOMAIN rewrite_instructions
    THEN rewrite_instructions[issue_type.v[1]]
    ELSE DefaultFixApproach

RewriteInstructions(original_copy, issue_type, target_persona, competitive_alternative) ==
    <<"Rewrite this copy to fix: ">> \o Format(issue_type)
    \o <<"**Original:**">> \o Format(original_copy)
    \o <<"**Issue:** ">> \o Format(issue_type)
    \o <<"**Fix approach:** ", FixApproach(issue_type)>>
    \o <<"**Target persona:** ">> \o OrDefault(target_persona, <<"Not specified">>)
    \o <<"**Competitive alternative:** ">> \o OrDefault(competitive_alternative, <<"Not specified">>)
    \o <<"Provide: analysis, three rewrite options, why these work">>

generate_rewrite(original_copy, issue_type, target_persona, competitive_alternative) ==
    [ task |-> JString(<<"copy_rewrite">>),
      instructions |-> JString(RewriteInstructions(original_copy, issue_type, target_persona,
                                                   competitive_alternative)),
      original_copy |-> ToJson(original_copy),
      issue_type |-> ToJson(issue_type) ]

CompetitiveFrameInstructions ==
    << "Build competitive frame:",
       "### Option 1: Direct Competitor", "### Option 2: Manual Process",
       "### Option 3: Status Quo", "### Option 4: Homegrown Solution",
       "## RECOMMENDED FRAME", "## DIFFERENTIATION STATEMENTS", "## VALIDATION QUESTIONS" >>

build_competitive_frame(product_description, known_competitors, current_positioning) ==
    [ task |-> JString(<<"competitive_frame_building">>),
      instructions |-> JString(CompetitiveFrameInstructions),
      product_description |-> ToJson(product_description),
      known_competitors |-> ToJson(known_competitors),
      current_positioning |-> ToJson(current_positioning) ]

IcpInstructions ==
    << "Analyze ICP definition:",
       "## FIRMOGRAPHICS IDENTIFIED", "## SITUATION/TRIGGER", "## PAIN POINTS",
       "## PERSONA CLARITY", "## ANTI-PATTERNS", "## INFERRED ICP", "## RECOMMENDATIONS",
       "## ICP CLARITY SCORE (0-100)" >>

analyze_icp(asset_content, additional_context) ==
    [ task |-> JString(<<"icp_analysis">>),
      instructions |-> JString(IcpInstructions),
      asset_content |-> ToJson(asset_content),
      additional_context |-> ToJson(additional_context) ]

\* an audit that leaves the ICP out and asks for four issue buckets
CompleteAuditFourBucketsNoIcp ==
    << "Run complete PMM audit:", "# PMM AUDIT REPORT", "## EXECUTIVE SUMMARY",
       "## 1. 5-SECOND TEST", "## 2. POSITIONING ANALYSIS", "## 3. MESSAGING ANALYSIS",
       "## 4. HOMEPAGE STRUCTURE (if applicable)", "## 5. ANTI-PATTERNS DETECTED",
       "## PRIORITIZED ISSUES",
       "### Critical (Fix This Week)", "### High Priority (Fix This Month)", "### Medium",
       "### Nice to Have",
       "## WHAT'S WORKING", "## KEY REWRITES NEEDED", "## OVERALL SCORES", "## READY TO SHIP?",
       "## NEXT STEPS" >>

CompleteAuditInstructions ==
    << "Run complete PMM audit:", "# PMM AUDIT REPORT", "## EXECUTIVE SUMMARY",
       "## 1. 5-SECOND TEST", "## 2. POSITIONING ANALYSIS", "## 3. MESSAGING ANALYSIS",
       "## 4. HOMEPAGE STRUCTURE (if applicable)", "## 5. ANTI-PATTERNS DETECTED",
       "### Critical (Must Fix)", "### High Priority (Should Fix)", "### Medium (Consider)",
       "## 6. ICP CLARITY", "## PRIORITIZED ISSUES",
       "### Critical (Fix This Week)", "### High Priority (Fix This Month)", "### Nice to Have",
       "## WHAT'S WORKING", "## KEY REWRITES NEEDED", "## OVERALL SCORES", "## READY TO SHIP?",
       "## NEXT STEPS" >>

run_complete_pmm_audit(asset_content, asset_type, asset_url, company_context) ==
    [ task |-> JString(<<"complete_pmm_audit">>),
      instructions |-> JString(CompleteAuditInstructions),
      asset_content |-> ToJson(asset_content),
      asset_type |-> ToJson(asset_type),
      asset_url |-> ToJson(asset_url),
      company_context |-> ToJson(company_context) ]

\* ------------------------------------------------------------------------
\* tools/web.py
\* ------------------------------------------------------------------------
ExtractModes == {"full", "above_fold", "hero_only"}

fetch_homepage(url, extract_mode) ==
    [ task |-> JString(<<"fetch_homepage">>),
      instructions |-> JString(<<"Fetch and analyze the homepage at: ">> \o Format(url)
                               \o <<"Extract and structure:", "## HERO SECTION",
                                    "## ABOVE THE FOLD", "## FULL PAGE SECTIONS (in order)",
                                    "## SOCIAL PROOF INVENTORY", "## CTA INVENTORY",
                                    "## META INFORMATION", "Extract mode: ">>
                               \o Format(extract_mode)),
      url |-> ToJson(url),
      extract_mode |-> ToJson(extract_mode) ]

\* a competitor fetch that tags its envelope as fetch_homepage does
fetch_competitor_homepage_tagged_as_fetch(competitor_url, your_url) ==
    [ task |-> JString(<<"fetch_homepage">>),
      instructions |-> JString(<<"Analyze competitor homepage: ">> \o Format(competitor_url)
                               \o <<"## COMPETITOR POSITIONING", "## COMPETITOR MESSAGING",
                                    "## COMPETITOR WEAKNESSES",
                                    "## DIFFERENTIATION OPPORTUNITIES",
                                    "## COMPETITIVE FRAME SUGGESTIONS">>
                               \o IfGiven("Compare against your site: ", your_url)),
      competitor_url |-> ToJson(competitor_url),
      your_url |-> ToJson(your_url) ]

fetch_competitor_homepage(competitor_url, your_url) ==
    [ task |-> JString(<<"competitor_analysis">>),
      instructions |-> JString(<<"Analyze competitor homepage: ">> \o Format(competitor_url)
                               \o <<"## COMPETITOR POSITIONING", "## COMPETITOR MESSAGING",
                                    "## COMPETITOR WEAKNESSES",
                                    "## DIFFERENTIATION OPPORTUNITIES",
                                    "## COMPETITIVE FRAME SUGGESTIONS">>
                               \o IfGiven("Compare against your site: ", your_url)),
      competitor_url |-> ToJson(competitor_url),
      your_url |-> ToJson(your_url) ]

analyze_landing_page(url, campaign_context) ==
    [ task |-> JString(<<"landing_page_analysis">>),
      instructions |-> JString(<<"Analyze landing page: ">> \o Format(url)
                               \o <<"## MESSAGE MATCH", "## SINGLE FOCUS", "## VALUE PROPOSITION",
                                    "## FORM ANALYSIS (if present)", "## TRUST ELEMENTS",
                                    "## CTA ANALYSIS", "## MOBILE CONSIDERATIONS",
                                    "## CONVERSION BLOCKERS", "## RECOMMENDATIONS">>
                               \o IfGiven("Campaign context: ", campaign_context)),
      url |-> ToJson(url),
      campaign_context |-> ToJson(campaign_context) ]

\* a template that is nothing but the interpolated url
SocialProofUrlOnly(url) == Format(url)

SocialProofInstructions(url) ==
    <<"Extract all social proof from: ">> \o Format(url)
    \o <<"## LOGO BAR", "## TESTIMONIALS", "## METRICS/STATS", "## CASE STUDIES",
         "## AWARDS/RECOGNITION", "## SOCIAL PROOF ASSESSMENT", "## SOCIAL PROOF SCORE (0-100)">>

scrape_social_proof(url) ==
    [ task |-> JString(<<"social_proof_inventory">>),
      instructions |-> JString(SocialProofInstructions(url)),
      url |-> ToJson(url) ]

\* ------------------------------------------------------------------------
\* tools/creation.py
\* ------------------------------------------------------------------------
Styles == {"minimal", "standard", "comprehensive"}

create_positioning_canvas(product_description, target_audience, known_competitors, unique_capabilities) ==
    [ task |-> JString(<<"create_positioning_canvas">>),
      instructions |-> JString(<<"Create positioning canvas:", "# POSITIONING CANVAS",
                                 "## 1. TARGET CUSTOMER", "Product: ">>
                               \o Format(product_description)
                               \o IfGiven("Target: ", target_audience)
                               \o IfGiven("Competitors: ", known_competitors)
                               \o IfGiven("Unique capabilities: ", unique_capabilities)),
      product_description |-> ToJson(product_description),
      target_audience |-> ToJson(target_audience),
      known_competitors |-> ToJson(known_competitors),
      unique_capabilities |-> ToJson(unique_capabilities) ]

create_messaging_framework(positioning_canvas, primary_persona, secondary_personas) ==
    [ task |-> JString(<<"create_messaging_framework">>),
      instructions |-> JString(<<"Create messaging framework:", "# MESSAGING FRAMEWORK",
                                 "## PERSONA-SPECIFIC MESSAGING">>
                               \o (IF Truthy(primary_persona)
                                   THEN <<"### Primary Persona: ">> \o Format(primary_persona)
                                   ELSE <<"### Primary Persona">>)
                               \o <<"| Aspect | Message |">>
                               \o IfGiven("### Secondary Personas: ", secondary_personas)
                               \o <<"**10-second version:**", "Positioning: ">>
                               \o Format(positioning_canvas)),
      positioning_canvas |-> ToJson(positioning_canvas),
      primary_persona |-> ToJson(primary_persona),
      secondary_personas |-> ToJson(secondary_personas) ]

create_homepage_wireframe(messaging_framework, style) ==
    [ task |-> JString(<<"create_homepage_wireframe">>),
      instructions |-> JString(<<"Create homepage wireframe:", "# HOMEPAGE WIREFRAME",
                                 "Style: ">> \o Format(style)
                               \o <<"Messaging: ">> \o Format(messaging_framework)),
      messaging_framework |-> ToJson(messaging_framework),
      style |-> ToJson(style) ]

\* differentiation statements that render the alternative as its repr, in quotes
generate_differentiation_quoted(product_description, competitive_alternative, unique_capabilities, target_audience) ==
    [ task |-> JString(<<"generate_differentiation">>),
      instructions |-> JString(<<"Generate differentiation statements:",
                                 "# DIFFERENTIATION STATEMENTS",
                                 "## \"UNLIKE X, WE Y\" STATEMENTS", "Product: ">>
                               \o Format(product_description)
                               \o <<"Alternative: ">> \o ReprStr(competitive_alternative.v)
                               \o <<"Capabilities: ">> \o Format(unique_capabilities)
                               \o IfGiven("Audience: ", target_audience)),
      product_description |-> ToJson(product_description),
      competitive_alternative |-> ToJson(competitive_alternative),
      unique_capabilities |-> ToJson(unique_capabilities),
      target_audience |-> ToJson(target_audience) ]

generate_differentiation_statements(product_description, competitive_alternative, unique_capabilities, target_audience) ==
    [ task |-> JString(<<"generate_differentiation">>),
      instructions |-> JString(<<"Generate differentiation statements:",
                                 "# DIFFERENTIATION STATEMENTS",
                                 "## \"UNLIKE X, WE Y\" STATEMENTS", "Product: ">>
                               \o Format(product_description)
                               \o <<"Alternative: ">> \o Format(competitive_alternative)
                               \o <<"Capabilities: ">> \o Format(unique_capabilities)
                               \o IfGiven("Audience: ", target_audience)),
      product_description |-> ToJson(product_description),
      competitive_alternative |-> ToJson(competitive_alternative),
      unique_capabilities |-> ToJson(unique_capabilities),
      target_audience |-> ToJson(target_audience) ]

\* ------------------------------------------------------------------------
\* The signatures of the 17 template operations
\* ------------------------------------------------------------------------
\* the parameters that have a default, with the default
Defaults ==
    [ run_five_second_test |-> [asset_type |-> PyStr(<<"homepage">>)],
      analyze_positioning |-> [company_context |-> PyNone],
      analyze_messaging |-> [target_persona |-> PyNone],
      analyze_homepage_structure |-> [include_screenshots |-> PyBool(FALSE)],
      detect_anti_patterns |-> [asset_type |-> PyStr(<<"all">>)],
      generate_rewrite |-> [target_persona |-> PyNone, competitive_alternative |-> PyNone],
      build_competitive_frame |-> [known_competitors |-> PyNone, current_positioning |-> PyNone],
      analyze_icp |-> [additional_context |-> PyNone],
      run_complete_pmm_audit |-> [asset_type |-> PyStr(<<"homepage">>), asset_url |-> PyNone,
                                  company_context |-> PyNone],
      fetch_homepage |-> [extract_mode |-> PyStr(<<"full">>)],
      fetch_competitor_homepage |-> [your_url |-> PyNone],
      analyze_landing_page |-> [campaign_context |-> PyNone],
      scrape_social_proof |-> <<>>,
      create_positioning_canvas |-> [target_audience |-> PyNone, known_competitors |-> PyNone,
                                     unique_capabilities |-> PyNone],
      create_messaging_framework |-> [primary_persona |-> PyNone, secondary_personas |-> PyNone],
      create_homepage_wireframe |-> [style |-> PyStr(<<"standard">>)],
      generate_differentiation_statements |-> [target_audience |-> PyNone] ]

Operations == DOMAIN Defaults

OptionalParams(o) == DOMAIN Defaults[o]

\* the parameters annotated Literal[...], with the annotated set
ClosedSets ==
    [ run_five_second_test |-> [asset_type |-> AssetTypes],
      detect_anti_patterns |-> [asset_type |-> ScanAssetTypes],
      generate_rewrite |-> [issue_type |-> IssueTypes],
      run_complete_pmm_audit |-> [asset_type |-> AssetTypes],
      fetch_homepage |-> [extract_mode |-> ExtractModes],
      create_homepage_wireframe |-> [style |-> Styles] ]

\* the values a caller may hand to an asset_type parameter
AssetTypeArgs == LooseLiteral(ScanAssetTypes)

\* the argument tuples of operation o over the given string and list values
Signature(o, strs, optstrs, lists, optlists) ==
    CASE o = "run_five_second_test" ->
            [asset_content : strs, asset_type : AssetTypeArgs]
      [] o = "analyze_positioning" ->
            [asset_content : strs, company_context : optstrs]
      [] o = "analyze_messaging" ->
            [asset_content : strs, target_persona : optstrs]
      [] o = "analyze_homepage_structure" ->
            [asset_content : strs, include_screenshots : BoolArgs]
      [] o = "detect_anti_patterns" ->
            [asset_content : strs, asset_type : AssetTypeArgs]
      [] o = "generate_rewrite" ->
            [original_copy : strs, issue_type : LooseLiteral(IssueTypes),
             target_persona : optstrs, competitive_alternative : optstrs]
      [] o = "build_competitive_frame" ->
            [product_description : strs, known_competitors : optlists,
             current_positioning : optstrs]
      [] o = "analyze_icp" ->
            [asset_content : strs, additional_context : optstrs]
      [] o = "run_complete_pmm_audit" ->
            [asset_content : strs, asset_type : AssetTypeArgs,
             asset_url : optstrs, company_context : optstrs]
      [] o = "fetch_homepage" ->
            [url : strs, extract_mode : LooseLiteral(ExtractModes)]
      [] o = "fetch_competitor_homepage" ->
            [competitor_url : strs, your_url : optstrs]
      [] o = "analyze_landing_page" ->
            [url : strs, campaign_context : optstrs]
      [] o = "scrape_social_proof" ->
            [url : strs]
      [] o = "create_positioning_canvas" ->
            [product_description : strs, target_audience : optstrs,
             known_competitors : optlists, unique_capabilities : optlists]
      [] o = "create_messaging_framework" ->
            [positioning_canvas : strs, primary_persona : optstrs,
             secondary_personas : optlists]
      [] o = "create_homepage_wireframe" ->
            [messaging_framework : strs, style : LooseLiteral(Styles)]
      [] o = "generate_differentiation_statements" ->
            [product_description : strs, competitive_alternative : strs,
             unique_capabilities : lists, target_audience : optstrs]

\* the argument tuples the model hands to operation o
ArgSpace(o) == Signature(o, StrArgs, OptStrArgs, ListArgs, OptListArgs)

NoCall == "none"

\* no template operation is in progress
IdleTools ==
    /\ op = NoCall
    /\ args = <<>>
    /\ envelope = <<>>

NoOther == [op |-> NoCall, task |-> JNull]

\* no caller is repeating an operation
IdleReplay ==
    /\ toolCalls = 0
    /\ other = NoOther
    /\ again = <<>>

\* a caller has bound the arguments of one operation; it has not returned yet
InitTools ==
    /\ op \in Operations
    /\ args \in ArgSpace(op)
    /\ envelope = <<>>

Pending(o) == op = o /\ DOMAIN envelope = {}
Returned == op # NoCall /\ DOMAIN envelope # {}

Call_run_five_second_test ==
    /\ Pending("run_five_second_test")
    /\ envelope' = run_five_second_test(args.asset_content, args.asset_type)
    /\ UNCHANGED <<op, args, notTools>>

Call_analyze_positioning ==
    /\ Pending("analyze_positioning")
    /\ envelope' = analyze_positioning(args.asset_content, args.company_context)
    /\ UNCHANGED <<op, args, notTools>>

Call_analyze_messaging ==
    /\ Pending("analyze_messaging")
    /\ envelope' = analyze_messaging(args.asset_content, args.target_persona)
    /\ UNCHANGED <<op, args, notTools>>

Call_analyze_homepage_structure ==
    /\ Pending("analyze_homepage_structure")
    /\ envelope' = analyze_homepage_structure(args.asset_content, args.include_screenshots)
    /\ UNCHANGED <<op, args, notTools>>

Call_detect_anti_patterns ==
    /\ Pending("detect_anti_patterns")
    /\ envelope' = detect_anti_patterns(args.asset_content, args.asset_type)
    /\ UNCHANGED <<op, args, notTools>>

Call_generate_rewrite ==
    /\ Pending("generate_rewrite")
    /\ envelope' = generate_rewrite(args.original_copy, args.issue_type, args.target_persona,
                                    args.competitive_alternative)
    /\ UNCHANGED <<op, args, notTools>>

Call_build_competitive_frame ==
    /\ Pending("build_competitive_frame")
    /\ envelope' = build_competitive_frame(args.product_description, args.known_competitors,
                                           args.current_positioning)
    /\ UNCHANGED <<op, args, notTools>>

Call_analyze_icp ==
    /\ Pending("analyze_icp")
    /\ envelope' = analyze_icp(args.asset_content, args.additional_context)
    /\ UNCHANGED <<op, args, notTools>>

Call_run_complete_pmm_audit ==
    /\ Pending("run_complete_pmm_audit")
    /\ envelope' = run_complete_pmm_audit(args.asset_content, args.asset_type, args.asset_url,
                                          args.company_context)
    /\ UNCHANGED <<op, args, notTools>>

Call_fetch_homepage ==
    /\ Pending("fetch_homepage")
    /\ envelope' = fetch_homepage(args.url, args.extract_mode)
    /\ UNCHANGED <<op, args, notTools>>

Call_fetch_competitor_homepage ==
    /\ Pending("fetch_competitor_homepage")
    /\ envelope' = fetch_competitor_homepage(args.competitor_url, args.your_url)
    /\ UNCHANGED <<op, args, notTools>>

Call_analyze_landing_page ==
    /\ Pending("analyze_landing_page")
    /\ envelope' = analyze_landing_page(args.url, args.campaign_context)
    /\ UNCHANGED <<op, args, notTools>>

Call_scrape_social_proof ==
    /\ Pending("scrape_social_proof")
    /\ envelope' = scrape_social_proof(args.url)
    /\ UNCHANGED <<op, args, notTools>>

Call_create_positioning_canvas ==
    /\ Pending("create_positioning_canvas")
    /\ envelope' = create_positioning_canvas(args.product_description, args.target_audience,
                                             args.known_competitors, args.unique_capabilities)
    /\ UNCHANGED <<op, args, notTools>>

Call_create_messaging_framework ==
    /\ Pending("create_messaging_framework")
    /\ envelope' = create_messaging_framework(args.positioning_canvas, args.primary_persona,
                                              args.secondary_personas)
    /\ UNCHANGED <<op, args, notTools>>

Call_create_homepage_wireframe ==
    /\ Pending("create_homepage_wireframe")
    /\ envelope' = create_homepage_wireframe(args.messaging_framework, args.style)
    /\ UNCHANGED <<op, args, notTools>>

Call_generate_differentiation_statements ==
    /\ Pending("generate_differentiation_statements")
    /\ envelope' = generate_differentiation_statements(args.product_description,
                                                       args.competitive_alternative,
                                                       args.unique_capabilities,
                                                       args.target_audience)
    /\ UNCHANGED <<op, args, notTools>>

NextTools ==
    \/ Call_run_five_second_test
    \/ Call_analyze_positioning
    \/ Call_analyze_messaging
    \/ Call_analyze_homepage_structure
    \/ Call_detect_anti_patterns
    \/ Call_generate_rewrite
    \/ Call_build_competitive_frame
    \/ Call_analyze_icp
    \/ Call_run_complete_pmm_audit
    \/ Call_fetch_homepage
    \/ Call_fetch_competitor_homepage
    \/ Call_analyze_landing_page
    \/ Call_scrape_social_proof
    \/ Call_create_positioning_canvas
    \/ Call_create_messaging_framework
    \/ Call_create_homepage_wireframe
    \/ Call_generate_differentiation_statements

\* ------------------------------------------------------------------------
\* tools: a caller that invokes an operation, then others, then the first again
\* ------------------------------------------------------------------------
\* operation o called with the bound arguments a
Invoke(o, a) ==
    CASE o = "run_five_second_test" -> run_five_second_test(a.asset_content, a.asset_type)
      [] o = "analyze_positioning" -> analyze_positioning(a.asset_content, a.company_context)
      [] o = "analyze_messaging" -> analyze_messaging(a.asset_content, a.target_persona)
      [] o = "analyze_homepage_structure" ->
            analyze_homepage_structure(a.asset_content, a.include_screenshots)
      [] o = "detect_anti_patterns" -> detect_anti_patterns(a.asset_content, a.asset_type)
      [] o = "generate_rewrite" ->
            generate_rewrite(a.original_copy, a.issue_type, a.target_persona, a.competitive_alternative)
      [] o = "build_competitive_frame" ->
            build_competitive_frame(a.product_description, a.known_competitors, a.current_positioning)
      [] o = "analyze_icp" -> analyze_icp(a.asset_content, a.additional_context)
      [] o = "run_complete_pmm_audit" ->
            run_complete_pmm_audit(a.asset_content, a.asset_type, a.asset_url, a.company_context)
      [] o = "fetch_homepage" -> fetch_homepage(a.url, a.extract_mode)
      [] o = "fetch_competitor_homepage" -> fetch_competitor_homepage(a.competitor_url, a.your_url)
      [] o = "analyze_landing_page" -> analyze_landing_page(a.url, a.campaign_context)
      [] o = "scrape_social_proof" -> scrape_social_proof(a.url)
      [] o = "create_positioning_canvas" ->
            create_positioning_canvas(a.product_description, a.target_audience, a.known_competitors, a.unique_capabilities)
      [] o = "create_messaging_framework" ->
            create_messaging_framework(a.positioning_canvas, a.primary_persona, a.secondary_personas)
      [] o = "create_homepage_wireframe" -> create_homepage_wireframe(a.messaging_framework, a.style)
      [] o = "generate_differentiation_statements" ->
            generate_differentiation_statements(a.product_description, a.competitive_alternative, a.unique_capabilities, a.target_audience)

\* the string and list values the repeating caller passes
ReplayStrs == {PyStr(<<>>), PyStr(<<"a">>)}
ReplayLists == {PyList(<<>>), PyList(<< <<"a">> >>)}
ReplayArgs(o) ==
    Signature(o, ReplayStrs, {PyNone} \cup ReplayStrs, ReplayLists, {PyNone} \cup ReplayLists)

InitReplay ==
    /\ op \in Operations
    /\ args \in ReplayArgs(op)
    /\ envelope = <<>>
    /\ IdleReplay

\* the first invocation
invoke_first ==
    /\ op # NoCall
    /\ toolCalls = 0
    /\ envelope' = Invoke(op, args)
    /\ toolCalls' = 1
    /\ UNCHANGED <<op, args, other, again, notReplay>>

\* another invocation: any operation, any arguments but the first invocation's
invoke_other ==
    /\ toolCalls > 0
    /\ toolCalls < MaxCalls - 1
    /\ DOMAIN again = {}
    /\ \E o \in Operations :
        \E a \in ReplayArgs(o) :
            /\ <<o, a>> # <<op, args>>
            /\ other' = [op |-> o, task |-> Invoke(o, a).task]
    /\ toolCalls' = toolCalls + 1
    /\ UNCHANGED <<op, args, envelope, again, notReplay>>

\* the first invocation, repeated with the same arguments
invoke_again ==
    /\ toolCalls > 0
    /\ toolCalls < MaxCalls
    /\ DOMAIN again = {}
    /\ again' = Invoke(op, args)
    /\ toolCalls' = toolCalls + 1
    /\ UNCHANGED <<op, args, envelope, other, notReplay>>

NextReplay ==
    \/ invoke_first
    \/ invoke_other
    \/ invoke_again

\* ------------------------------------------------------------------------
\* agent.py
\* ------------------------------------------------------------------------
EVALUATION_TOOLS ==
    << "run_five_second_test", "analyze_positioning", "analyze_messaging",
       "analyze_homepage_structure", "detect_anti_patterns", "generate_rewrite",
       "build_competitive_frame", "analyze_icp", "run_complete_pmm_audit" >>

WEB_TOOLS ==
    << "fetch_homepage", "fetch_competitor_homepage", "analyze_landing_page",
       "scrape_social_proof" >>

CREATION_TOOLS ==
    << "create_positioning_canvas", "create_messaging_framework",
       "create_homepage_wireframe", "generate_differentiation_statements" >>

ALL_TOOLS == EVALUATION_TOOLS \o WEB_TOOLS \o CREATION_TOOLS

\* subagents/specialists.py: name and tool list of each specialist record
PMM_SUBAGENTS ==
    << [ name |-> "positioning-analyst",
         tools |-> << "analyze_positioning", "build_competitive_frame",
                      "create_positioning_canvas", "generate_differentiation_statements",
                      "fetch_competitor_homepage" >> ],
       [ name |-> "messaging-analyst",
         tools |-> << "analyze_messaging", "generate_rewrite", "detect_anti_patterns" >> ],
       [ name |-> "homepage-analyst",
         tools |-> << "fetch_homepage", "detect_anti_patterns", "generate_rewrite" >> ],
       [ name |-> "anti-pattern-detector",
         tools |-> << "detect_anti_patterns", "generate_rewrite" >> ],
       [ name |-> "icp-analyst",
         tools |-> << "analyze_icp", "detect_anti_patterns" >> ],
       [ name |-> "competitive-analyst",
         tools |-> << "fetch_competitor_homepage", "build_competitive_frame",
                      "generate_differentiation_statements", "analyze_positioning" >> ] >>

DEFAULT_MODEL == "claude-sonnet-4-20250514"

NoModelName == "None"

\* get_model: ChatAnthropic(model_name = model_name or DEFAULT_MODEL, max_tokens = 20000)
get_model(model_name) ==
    [ model_name |-> IF model_name = NoModelName \/ model_name = "" THEN DEFAULT_MODEL
                     ELSE model_name,
      max_tokens |-> 20000 ]

\* the module-level lists as the import leaves them
ModuleLists ==
    [ EVALUATION_TOOLS |-> EVALUATION_TOOLS, WEB_TOOLS |-> WEB_TOOLS,
      CREATION_TOOLS |-> CREATION_TOOLS, ALL_TOOLS |-> ALL_TOOLS,
      PMM_SUBAGENTS |-> PMM_SUBAGENTS ]

\* a selection that hands every other call the full list
SelectToolsEveryOtherCallFull(mode) ==
    IF factoryCalls % 2 = 1 THEN registry.ALL_TOOLS
    ELSE IF mode = "evaluate" THEN registry.EVALUATION_TOOLS \o registry.WEB_TOOLS
    ELSE IF mode = "create" THEN registry.CREATION_TOOLS
    ELSE registry.ALL_TOOLS

\* a selection that leaves the web tools out of mode "evaluate"
SelectToolsWithoutWeb(mode) ==
    IF mode = "evaluate" THEN EVALUATION_TOOLS
    ELSE IF mode = "create" THEN CREATION_TOOLS
    ELSE ALL_TOOLS

\* a selection that gives an unrecognised mode no tools
SelectToolsKnownModesOnly(mode) ==
    IF mode = "evaluate" THEN registry.EVALUATION_TOOLS \o registry.WEB_TOOLS
    ELSE IF mode = "create" THEN registry.CREATION_TOOLS
    ELSE IF mode = "full" THEN registry.ALL_TOOLS
    ELSE <<>>

\* create_pmm_agent: "Select tools based on mode"
SelectTools(mode) ==
    IF mode = "evaluate" THEN registry.EVALUATION_TOOLS \o registry.WEB_TOOLS
    ELSE IF mode = "create" THEN registry.CREATION_TOOLS
    ELSE registry.ALL_TOOLS

\* an interrupt_on dict that names every creation tool
InterruptOnEveryCreationTool ==
    { "create_positioning_canvas", "create_messaging_framework", "create_homepage_wireframe",
      "generate_differentiation_statements" }

\* the interrupt_on dict of create_pmm_agent: the keys mapped to True
InterruptOn ==
    {"create_positioning_canvas", "create_messaging_framework", "create_homepage_wireframe"}

\* the mode values a caller may pass: the three documented ones and another string
ModeArgs == {"evaluate", "create", "full", "staging"}
ModelNameArgs == {NoModelName, "claude-haiku"}

NoAssembly == <<>>

InitFactory ==
    /\ running_in_langgraph_api \in BOOLEAN
    /\ factoryCalls = 0
    /\ factoryArgs = <<>>
    /\ handed = NoAssembly
    /\ registry = ModuleLists
    /\ factoryLog = <<>>

\* an assembly that delegates to specialists in mode "full" only
AssemblySubagentsInFullModeOnly(model, mode, use_memory, include_subagents) ==
    [ model |-> get_model(model),
      tools |-> SelectTools(mode),
      subagents |-> IF include_subagents /\ mode = "full" THEN registry.PMM_SUBAGENTS ELSE <<>>,
      system_prompt |-> "PMM_EVALUATOR_SYSTEM_PROMPT",
      checkpointer |-> IF use_memory /\ ~running_in_langgraph_api THEN "True" ELSE "None",
      interrupt_on |-> InterruptOn ]

\* an assembly that asks for memory whenever use_memory is set
AssemblyMemoryWheneverAsked(model, mode, use_memory, include_subagents) ==
    [ model |-> get_model(model),
      tools |-> SelectTools(mode),
      subagents |-> IF include_subagents THEN registry.PMM_SUBAGENTS ELSE <<>>,
      system_prompt |-> "PMM_EVALUATOR_SYSTEM_PROMPT",
      checkpointer |-> IF use_memory THEN "True" ELSE "None",
      interrupt_on |-> InterruptOn ]

\* an assembly that leaves each specialist only the tools of the mode's own list
AssemblySubagentToolsOfModeOnly(model, mode, use_memory, include_subagents) ==
    LET allowed == {SelectTools(mode)[i] : i \in 1..Len(SelectTools(mode))}
        Scoped(sub) ==
            [name |-> sub.name, tools |-> SelectSeq(sub.tools, LAMBDA t : t \in allowed)]
    IN  [ model |-> get_model(model),
          tools |-> SelectTools(mode),
          subagents |-> IF include_subagents
                        THEN [ i \in 1..Len(registry.PMM_SUBAGENTS) |->
                                    Scoped(registry.PMM_SUBAGENTS[i]) ]
                        ELSE <<>>,
          system_prompt |-> "PMM_EVALUATOR_SYSTEM_PROMPT",
          checkpointer |-> IF use_memory /\ ~running_in_langgraph_api THEN "True" ELSE "None",
          interrupt_on |-> InterruptOn ]

\* everything create_pmm_agent passes to create_deep_agent
Assembly(model, mode, use_memory, include_subagents) ==
    [ model |-> get_model(model),
      tools |-> SelectTools(mode),
      subagents |-> IF include_subagents THEN registry.PMM_SUBAGENTS ELSE <<>>,
      system_prompt |-> "PMM_EVALUATOR_SYSTEM_PROMPT",
      checkpointer |-> IF use_memory /\ ~running_in_langgraph_api THEN "True" ELSE "None",
      interrupt_on |-> InterruptOn ]

create_pmm_agent ==
    /\ factoryCalls < MaxCalls
    /\ \E model \in ModelNameArgs, mode \in ModeArgs,
          use_memory \in BOOLEAN, include_subagents \in BOOLEAN :
            /\ factoryArgs' = [ model |-> model, mode |-> mode, use_memory |-> use_memory,
                                include_subagents |-> include_subagents ]
            /\ handed' = Assembly(model, mode, use_memory, include_subagents)
            /\ factoryLog' = Append(factoryLog,
                    [ mode |-> mode, use_memory |-> use_memory,
                      include_subagents |-> include_subagents,
                      tools |-> Assembly(model, mode, use_memory, include_subagents).tools,
                      subagents |-> Assembly(model, mode, use_memory, include_subagents).subagents ])
    /\ factoryCalls' = factoryCalls + 1
    /\ UNCHANGED <<running_in_langgraph_api, registry, notFactory>>

NextFactory == create_pmm_agent

\* ------------------------------------------------------------------------
\* models/evaluation.py
\* ------------------------------------------------------------------------
ScoreMin == 0
ScoreMax == 100

\* Field(..., ge=0, le=100) on an int field
ScoreField == [kind |-> "int", bounded |-> TRUE, ge |-> ScoreMin, le |-> ScoreMax]
\* an int field without constraints
IntField == [kind |-> "int", bounded |-> FALSE, ge |-> 0, le |-> 0]
\* a bool field
BoolField == [kind |-> "bool"]
LiteralField(S) == [kind |-> "literal", values |-> S]
ModelField(c) == [kind |-> "model", of |-> c, optional |-> FALSE]
OptionalModelField(c) == [kind |-> "model", of |-> c, optional |-> TRUE]
ListField(c) == [kind |-> "list", of |-> c]
\* class ScoreLevel(IntEnum)
ScoreLevel == [FAILING |-> 0, POOR |-> 25, NEEDS_WORK |-> 50, GOOD |-> 75, EXCELLENT |-> 100]

\* an enumeration whose two highest members share a value
SeverityHighTwice == [LOW |-> 1, MEDIUM |-> 2, HIGH |-> 3, CRITICAL |-> 3]

\* class Severity(IntEnum)
Severity == [LOW |-> 1, MEDIUM |-> 2, HIGH |-> 3, CRITICAL |-> 4]

\* class Severity(IntEnum): LOW = 1 .. CRITICAL = 4
SeverityField == [kind |-> "int", bounded |-> TRUE, ge |-> 1, le |-> 4]

AlternativeTypes == {"direct_competitor", "manual_process", "status_quo", "homegrown", "spreadsheets"}
CanvasAlternativeTypes == {"direct_competitor", "manual_process", "status_quo", "homegrown"}
StrategyTypes == {"category_based", "use_case_based", "unclear"}
LayerNames == {"positioning_statement", "value_proposition", "key_messages", "proof_points", "micro_copy"}
Clarity == {"clear", "partial", "unclear"}
IssueCategories == {"positioning", "messaging", "homepage", "icp", "gtm"}
ResultAssetTypes == {"homepage", "landing_page", "sales_deck", "email", "ad", "other"}

\* the constrained fields of each record class (fields of type str, bool and
\* list[str] accept every value of their type and are left out)
Schema ==
    [ CompetitiveAlternative |-> [alternative_type |-> LiteralField(AlternativeTypes)],
      TargetCustomer |-> [specificity_score |-> ScoreField],
      PositioningStrategy |->
          [ strategy_type |-> LiteralField(StrategyTypes),
            competitive_frame_score |-> ScoreField,
            target_audience_score |-> ScoreField,
            differentiation_score |-> ScoreField,
            problem_clarity_score |-> ScoreField ],
      PositioningAnalysis |->
          [ target_customer |-> ModelField("TargetCustomer"),
            competitive_alternative |-> OptionalModelField("CompetitiveAlternative"),
            strategy |-> ModelField("PositioningStrategy"),
            overall_score |-> ScoreField ],
      MessagingLayer |->
          [ layer_name |-> LiteralField(LayerNames), quality_score |-> ScoreField ],
      MessagingHouse |-> [structure_score |-> ScoreField],
      MessagingAnalysis |->
          [ layers |-> ListField("MessagingLayer"),
            messaging_house |-> ModelField("MessagingHouse"),
            clarity_score |-> ScoreField,
            specificity_score |-> ScoreField,
            benefit_orientation_score |-> ScoreField,
            overall_score |-> ScoreField ],
      FiveSecondTest |->
          [ what_they_do |-> LiteralField(Clarity), who_its_for |-> LiteralField(Clarity),
            whats_different |-> LiteralField(Clarity),
            what_to_do_next |-> LiteralField(Clarity), passed |-> BoolField ],
      HeroSection |->
          [ headline_clarity_score |-> ScoreField, cta_clarity_score |-> ScoreField ],
      SocialProof |-> [overall_score |-> ScoreField],
      HomepageAnalysis |->
          [ five_second_test |-> ModelField("FiveSecondTest"),
            hero |-> ModelField("HeroSection"),
            social_proof |-> ModelField("SocialProof"),
            information_hierarchy_score |-> ScoreField,
            cta_count |-> IntField,
            overall_score |-> ScoreField ],
      PMMIssue |->
          [ category |-> LiteralField(IssueCategories), severity |-> SeverityField ],
      PMMEvaluationResult |->
          [ asset_type |-> LiteralField(ResultAssetTypes),
            positioning |-> ModelField("PositioningAnalysis"),
            messaging |-> ModelField("MessagingAnalysis"),
            homepage |-> OptionalModelField("HomepageAnalysis"),
            critical_issues |-> ListField("PMMIssue"),
            high_priority_issues |-> ListField("PMMIssue"),
            medium_issues |-> ListField("PMMIssue"),
            low_issues |-> ListField("PMMIssue"),
            overall_score |-> ScoreField ],
      PositioningCanvas |->
          [ alternative_type |-> LiteralField(CanvasAlternativeTypes),
            positioning_approach |-> LiteralField({"category_based", "use_case_based"}) ] ]

Classes == DOMAIN Schema

\* None for an optional nested record
NoRecord == <<>>
IsNone(v) == DOMAIN v = {}

IndexName == <<"0", "1", "2", "3", "4">>

\* an upper bound that is never applied
IntOkNoUpperBound(f, v) == f.bounded => f.ge <= v

\* the ge / le constraints of an int field
IntOk(f, v) == f.bounded => (f.ge <= v /\ v <= f.le)

\* the locations (paths of field names and list indexes) at which validating the
\* values d against class c fails; construction succeeds when there are none
RECURSIVE ValidationErrors(_, _, _)
ValidationErrors(c, d, at) ==
    UNION { LET f == Schema[c][n]
                v == d[n]
            IN  CASE f.kind = "int" ->
                        IF IntOk(f, v) THEN {} ELSE {Append(at, n)}
                  [] f.kind = "literal" ->
                        IF v \in f.values THEN {} ELSE {Append(at, n)}
                  [] f.kind = "bool" ->
                        IF v \in BOOLEAN THEN {} ELSE {Append(at, n)}
                  [] f.kind = "model" ->
                        IF IsNone(v)
                        THEN IF f.optional THEN {} ELSE {Append(at, n)}
                        ELSE ValidationErrors(f.of, v, Append(at, n))
                  [] f.kind = "list" ->
                        UNION { ValidationErrors(f.of, v[i], at \o <<n, IndexName[i]>>)
                                : i \in 1..Len(v) }
            : n \in DOMAIN Schema[c] }

\* the issue lists of PMMEvaluationResult, with the severity each is named after
IssueBuckets ==
    [ critical_issues |-> "CRITICAL", high_priority_issues |-> "HIGH",
      medium_issues |-> "MEDIUM", low_issues |-> "LOW" ]

\* a constructor that also rejects an issue filed under another severity's list
ValidateBucketsToo(c, d) ==
    ValidationErrors(c, d, <<>>)
    \cup (IF c = "PMMEvaluationResult"
          THEN {<<b>> : b \in {x \in DOMAIN IssueBuckets :
                                  \E i \in 1..Len(d[x]) :
                                      d[x][i].severity # Severity[IssueBuckets[x]]}}
          ELSE {})

\* a constructor that also wants one layer per name, in the declared order
ValidateFiveLayersToo(c, d) ==
    ValidationErrors(c, d, <<>>)
    \cup (IF c = "MessagingAnalysis"
             /\ [i \in 1..Len(d.layers) |-> d.layers[i].layer_name]
                    # << "positioning_statement", "value_proposition", "key_messages",
                         "proof_points", "micro_copy" >>
          THEN {<<"layers">>}
          ELSE {})

\* BaseModel.__init__: the fields are validated one by one; no class declares a
\* validator across fields
Validate(c, d) == ValidationErrors(c, d, <<>>)

\* the values handed to the constructors
ScoreMid == (ScoreMin + ScoreMax) \div 2
ScoreSamples == {ScoreMin - Over, ScoreMin, ScoreMid, ScoreMax, ScoreMax + Over}
NestedScores == {ScoreMin, ScoreMax, ScoreMax + Over}

TC(x) == [specificity_score |-> x]
PS(t, a, b, c, d) ==
    [ strategy_type |-> t, competitive_frame_score |-> a, target_audience_score |-> b,
      differentiation_score |-> c, problem_clarity_score |-> d ]
CA(t) == [alternative_type |-> t]
PA(tc, ca, ps, o) ==
    [target_customer |-> tc, competitive_alternative |-> ca, strategy |-> ps, overall_score |-> o]
ML(n, q) == [layer_name |-> n, quality_score |-> q]
MH(x) == [structure_score |-> x]
MA(ls, mh, a, b, c, o) ==
    [ layers |-> ls, messaging_house |-> mh, clarity_score |-> a, specificity_score |-> b,
      benefit_orientation_score |-> c, overall_score |-> o ]
FST(a, b, c, d, p) ==
    [ what_they_do |-> a, who_its_for |-> b, whats_different |-> c, what_to_do_next |-> d,
      passed |-> p ]
HS(a, b) == [headline_clarity_score |-> a, cta_clarity_score |-> b]
SP(x) == [overall_score |-> x]
HA(t, h, p, i, n, o) ==
    [ five_second_test |-> t, hero |-> h, social_proof |-> p,
      information_hierarchy_score |-> i, cta_count |-> n, overall_score |-> o ]
PI(c, v) == [category |-> c, severity |-> v]
PER(t, p, m, h, ci, hi, mi, li, o) ==
    [ asset_type |-> t, positioning |-> p, messaging |-> m, homepage |-> h,
      critical_issues |-> ci, high_priority_issues |-> hi, medium_issues |-> mi,
      low_issues |-> li, overall_score |-> o ]
PC(t, a) == [alternative_type |-> t, positioning_approach |-> a]

FiveLayers(x) ==
    << ML("positioning_statement", x), ML("value_proposition", x), ML("key_messages", x),
       ML("proof_points", x), ML("micro_copy", x) >>

\* nested records whose scores are all x
PAof(x) == PA(TC(x), NoRecord, PS("unclear", x, x, x, x), x)
MAof(x) == MA(FiveLayers(x), MH(x), x, x, x, x)
HAof(x) == HA(FST("clear", "clear", "clear", "clear", TRUE), HS(x, x), SP(x), x, 1, x)

DataSpace(c) ==
    CASE c = "CompetitiveAlternative" ->
            {CA(t) : t \in AlternativeTypes \cup {Unlisted}}
      [] c = "TargetCustomer" ->
            {TC(x) : x \in ScoreSamples}
      [] c = "PositioningStrategy" ->
            {PS(t, a, b, x, d) : t \in {"category_based", Unlisted},
                                 a \in ScoreSamples, b \in ScoreSamples,
                                 x \in ScoreSamples, d \in ScoreSamples}
      [] c = "PositioningAnalysis" ->
            {PA(TC(x), ca, PS("unclear", y, y, y, y), o) :
                x \in NestedScores, ca \in {NoRecord, CA("spreadsheets")},
                y \in NestedScores, o \in ScoreSamples}
      [] c = "MessagingLayer" ->
            {ML(n, q) : n \in LayerNames \cup {Unlisted}, q \in ScoreSamples}
      [] c = "MessagingHouse" ->
            {MH(x) : x \in ScoreSamples}
      [] c = "MessagingAnalysis" ->
            {MA(ls, MH(y), a, b, x, o) :
                ls \in {<<>>, <<ML("micro_copy", ScoreMax + Over)>>,
                        <<ML("micro_copy", ScoreMin), ML("micro_copy", ScoreMax)>>,
                        <<ML("micro_copy", ScoreMin), ML("positioning_statement", ScoreMin)>>,
                        <<ML(Unlisted, ScoreMid)>>,
                        FiveLayers(ScoreMax)},
                y \in NestedScores, a \in ScoreSamples, b \in ScoreSamples,
                x \in ScoreSamples, o \in ScoreSamples}
      [] c = "FiveSecondTest" ->
            {FST(a, b, x, d, p) : a \in Clarity, b \in Clarity, x \in Clarity,
                                  d \in Clarity \cup {Unlisted}, p \in BOOLEAN}
      [] c = "HeroSection" ->
            {HS(a, b) : a \in ScoreSamples, b \in ScoreSamples}
      [] c = "SocialProof" ->
            {SP(x) : x \in ScoreSamples}
      [] c = "HomepageAnalysis" ->
            {HA(FST("clear", "partial", "unclear", "clear", FALSE), HS(x, x), SP(y), i, n, o) :
                x \in NestedScores, y \in NestedScores, i \in ScoreSamples,
                n \in {ScoreMin - Over, ScoreMax + Over}, o \in ScoreSamples}
      [] c = "PMMIssue" ->
            {PI(k, v) : k \in {"positioning", Unlisted}, v \in 0..5}
      [] c = "PMMEvaluationResult" ->
            {PER(t, PAof(x), MAof(y), h, ci, hi, mi, li, o) :
                t \in {"other", "all"}, x \in NestedScores, y \in NestedScores,
                h \in {NoRecord, HAof(ScoreMin), HAof(ScoreMax + Over)},
                ci \in {<<>>, <<PI("gtm", 4)>>, <<PI("gtm", 1)>>, <<PI("gtm", 4), PI("gtm", 0)>>},
                hi \in {<<>>, <<PI("messaging", 1)>>},
                mi \in {<<>>, <<PI("homepage", 4)>>},
                li \in {<<>>, <<PI("icp", 4)>>},
                o \in ScoreSamples}
      [] c = "PositioningCanvas" ->
            {PC(t, a) : t \in AlternativeTypes \cup {Unlisted},
                        a \in StrategyTypes}

\* no record is being constructed
IdleModels ==
    /\ cls = "none"
    /\ data = <<>>
    /\ validation = "none"
    /\ errors = {}
    /\ instance = NoRecord

\* a caller has chosen a class and the values for its constructor
InitModels ==
    /\ cls \in Classes
    /\ data \in DataSpace(cls)
    /\ validation = "pending"
    /\ errors = {}
    /\ instance = NoRecord

\* cls(**data): the record is built when validation reports no error, and
\* ValidationError is raised with the failing locations otherwise
Construct ==
    /\ validation = "pending"
    /\ LET found == Validate(cls, data)
       IN  /\ errors' = found
           /\ validation' = IF found = {} THEN "ok" ELSE "ValidationError"
           /\ instance' = IF found = {} THEN data ELSE NoRecord
    /\ UNCHANGED <<cls, data, notModels>>

NextModels == Construct

\* ------------------------------------------------------------------------
\* cli.py: text helpers and tables
\* ------------------------------------------------------------------------
Whitespace == {" "}

RECURSIVE lstrip(_)
lstrip(s) == IF Len(s) > 0 /\ Head(s) \in Whitespace THEN lstrip(Tail(s)) ELSE s

RECURSIVE rstrip(_)
rstrip(s) ==
    IF Len(s) > 0 /\ s[Len(s)] \in Whitespace THEN rstrip(SubSeq(s, 1, Len(s) - 1)) ELSE s

\* str.strip()
strip(s) == rstrip(lstrip(s))

UpperToLower ==
    [ A |-> "a", B |-> "b", C |-> "c", D |-> "d", E |-> "e", F |-> "f", G |-> "g",
      H |-> "h", I |-> "i", J |-> "j", K |-> "k", L |-> "l", M |-> "m", N |-> "n",
      O |-> "o", P |-> "p", Q |-> "q", R |-> "r", S |-> "s", T |-> "t", U |-> "u",
      V |-> "v", W |-> "w", X |-> "x", Y |-> "y", Z |-> "z" ]

\* str.lower()
lower(s) == [i \in 1..Len(s) |-> IF s[i] \in DOMAIN UpperToLower THEN UpperToLower[s[i]] ELSE s[i]]

ExitCommands == {<<"e", "x", "i", "t">>, <<"q", "u", "i", "t">>, <<"q">>, <<"b", "y", "e">>}
HelpCommands == {<<"h", "e", "l", "p">>, <<"?">>, <<"h">>}

QUICK_PICKS ==
    [ k \in {"1", "2", "3", "4", "5", "6"} |->
        CASE k = "1" -> "analyze_homepage"
          [] k = "2" -> "five_second_test"
          [] k = "3" -> "anti_patterns"
          [] k = "4" -> "positioning_canvas"
          [] k = "5" -> "messaging_framework"
          [] k = "6" -> "competitor_compare" ]

\* user_input in QUICK_PICKS
IsQuickPick(s) == Len(s) = 1 /\ s[1] \in DOMAIN QUICK_PICKS

\* an if-chain that compares the line with the exit and help words as typed
MainBranchCaseSensitive(s) ==
    IF s \in ExitCommands THEN "exit"
    ELSE IF Len(s) = 0 THEN "empty"
    ELSE IF s \in HelpCommands THEN "help"
    ELSE IF IsQuickPick(s) THEN "quick_pick"
    ELSE "free_text"

\* the if-chain of main's loop body, applied to the stripped input
MainBranch(s) ==
    IF lower(s) \in ExitCommands THEN "exit"
    ELSE IF Len(s) = 0 THEN "empty"
    ELSE IF lower(s) \in HelpCommands THEN "help"
    ELSE IF IsQuickPick(s) THEN "quick_pick"
    ELSE "free_text"

\* the lines a user may type at the main prompt
Words ==
    { <<>>, <<"e", "x", "i", "t">>, <<"Q", "U", "I", "T">>, <<"q">>, <<"B", "y", "e">>,
      <<"h", "e", "l", "p">>, <<"?">>, <<"H">>,
      <<"1">>, <<"2">>, <<"3">>, <<"4">>, <<"5">>, <<"6">>, <<"7">>,
      <<"h", "i">>, <<"1", " ", "2">>, <<"q", "1">> }
Pads == {<<>>, <<" ">>}
InputLines == {l \o w \o r : l \in Pads, w \in Words, r \in Pads}
\* the lines a user may type at a quick pick's follow-up prompt
FieldLines == {l \o w \o r : l \in Pads, w \in {<<>>, <<"u">>}, r \in Pads}

\* the exception classes the model raises; all but KeyboardInterrupt derive from Exception
ExceptionSubclasses == {"Exception", "KeyError", "IndexError", "EOFError"}
IsException(e) == e \in ExceptionSubclasses

\* what agent.invoke may do: return a result, or raise
GoodResult == [kind |-> "result", has_messages |-> TRUE, messages |-> <<<<"m">>, <<"r">>>>]
PaddedResult == [kind |-> "result", has_messages |-> TRUE, messages |-> << <<" ", "r", " ">> >>]
NoMessagesKey == [kind |-> "result", has_messages |-> FALSE, messages |-> <<>>]
EmptyMessages == [kind |-> "result", has_messages |-> TRUE, messages |-> <<>>]
Raises(e) == [kind |-> "raise", has_messages |-> FALSE, messages |-> <<e>>]
InvokeOutcomes ==
    { GoodResult, PaddedResult, NoMessagesKey, EmptyMessages, Raises("Exception"),
      Raises("KeyboardInterrupt") }

\* the try body of run_prompt: "ok" with the response printed, or the exception raised
TryBody(o) ==
    IF o.kind = "raise" THEN [raised |-> o.messages[1], out |-> <<>>]
    ELSE IF ~o.has_messages THEN [raised |-> "KeyError", out |-> <<>>]
    ELSE IF Len(o.messages) = 0 THEN [raised |-> "IndexError", out |-> <<>>]
    ELSE [raised |-> "none", out |-> o.messages[Len(o.messages)]]

\* a run_prompt that trims the response before printing it
run_prompt_trims_response(o) ==
    LET t == TryBody(o)
    IN  IF t.raised = "none"
        THEN [raised |-> "none", out |-> <<"\nAnalyzing...\n">> \o strip(t.out)]
        ELSE IF IsException(t.raised)
        THEN [raised |-> "none", out |-> <<"\nAnalyzing...\n", "\nError: ", t.raised>>]
        ELSE [raised |-> t.raised, out |-> <<"\nAnalyzing...\n">>]

\* a handler that catches every exception, KeyboardInterrupt included
run_prompt_bare_except(o) ==
    LET t == TryBody(o)
    IN  IF t.raised = "none"
        THEN [raised |-> "none", out |-> <<"\nAnalyzing...\n">> \o t.out]
        ELSE [raised |-> "none", out |-> <<"\nAnalyzing...\n", "\nError: ", t.raised>>]

\* run_prompt: `except Exception as e: print(f"\nError: {e}\n")`; what it prints and
\* the exception that leaves it
run_prompt(o) ==
    LET t == TryBody(o)
    IN  IF t.raised = "none"
        THEN [raised |-> "none", out |-> <<"\nAnalyzing...\n">> \o t.out]
        ELSE IF IsException(t.raised)
        THEN [raised |-> "none", out |-> <<"\nAnalyzing...\n", "\nError: ", t.raised>>]
        ELSE [raised |-> t.raised, out |-> <<"\nAnalyzing...\n">>]

\* the prompt a quick pick builds from its stripped fields
QuickPickPrompt(a, f) ==
    CASE a = "analyze_homepage" ->
            <<"Run a complete PMM audit on ">> \o f[1]
            \o <<". Include 5-second test, positioning analysis, messaging analysis, and anti-pattern detection.">>
      [] a = "five_second_test" ->
            <<"Run a 5-second test on ">> \o f[1]
            \o <<". Tell me: What do they do? Who is it for? What makes them different? What should I do next?">>
      [] a = "anti_patterns" ->
            <<"Scan ">> \o f[1]
            \o <<" for PMM anti-patterns. Look for: unclear positioning, jargon, feature dumping, missing social proof, too many CTAs.">>
      [] a = "positioning_canvas" ->
            <<"Create a positioning canvas for: ">> \o f[1]
            \o (IF Len(f[2]) > 0 THEN <<"\nTarget audience: ">> \o f[2] ELSE <<>>)
            \o (IF Len(f[3]) > 0 THEN <<"\nCompetitors: ">> \o f[3] ELSE <<>>)
      [] a = "messaging_framework" ->
            <<"Create a complete messaging framework for: ">> \o f[1]
            \o <<". Include value proposition, 3 key message pillars, and proof points.">>
      [] a = "competitor_compare" ->
            <<"Compare my homepage (">> \o f[1] \o <<") against this competitor (">> \o f[2]
            \o <<"). Identify their weaknesses and my differentiation opportunities.">>

More == [next |-> "more", out |-> <<>>]
Missing(msg) == [next |-> "missing", out |-> <<msg>>]
Run == [next |-> "run", out |-> <<>>]

\* a competitor comparison that asks only for the first URL
QuickPickStepFirstUrlOnly(a, f) ==
    CASE a \in {"analyze_homepage", "five_second_test", "anti_patterns"} ->
            IF Len(f[1]) = 0 THEN Missing("No URL provided.") ELSE Run
      [] a = "positioning_canvas" ->
            IF Len(f[1]) = 0 THEN Missing("No product description provided.")
            ELSE IF Len(f) < 3 THEN More ELSE Run
      [] a = "messaging_framework" ->
            IF Len(f[1]) = 0 THEN Missing("No product description provided.") ELSE Run
      [] a = "competitor_compare" ->
            IF Len(f) < 2 THEN More
            ELSE IF Len(f[1]) = 0 THEN Missing("Both URLs are required.")
            ELSE Run
      [] OTHER -> Missing("Unknown action.")

\* handle_quick_pick after the fields f (stripped) have been read: read another
\* field, report a missing field and return, or call run_prompt
QuickPickStep(a, f) ==
    CASE a \in {"analyze_homepage", "five_second_test", "anti_patterns"} ->
            IF Len(f[1]) = 0 THEN Missing("No URL provided.") ELSE Run
      [] a = "positioning_canvas" ->
            IF Len(f[1]) = 0 THEN Missing("No product description provided.")
            ELSE IF Len(f) < 3 THEN More ELSE Run
      [] a = "messaging_framework" ->
            IF Len(f[1]) = 0 THEN Missing("No product description provided.") ELSE Run
      [] a = "competitor_compare" ->
            IF Len(f) < 2 THEN More
            ELSE IF Len(f[1]) = 0 \/ Len(f[2]) = 0 THEN Missing("Both URLs are required.")
            ELSE Run
      [] OTHER -> Missing("Unknown action.")

\* run_prompt calls agent.invoke again after a failure
AttemptsWithRetry(o) == IF TryBody(o).raised = "none" THEN 1 ELSE 2

\* the number of agent.invoke calls run_prompt makes: one, whatever the outcome
Attempts(o) == 1

\* except clauses that also leave the loop at the end of input
main_except_end_of_input_breaks(e) ==
    IF e \in {"KeyboardInterrupt", "EOFError"} THEN "break"
    ELSE IF IsException(e) THEN "continue"
    ELSE "uncaught"

\* the except clauses of main's loop, for an exception that reaches them
main_except(e) ==
    IF e = "KeyboardInterrupt" THEN "break"
    ELSE IF IsException(e) THEN "continue"
    ELSE "uncaught"

Welcome == <<"PMM Deep Agent - Product Marketing Evaluator">>
Goodbye == <<"\nGoodbye!">>
InterruptedGoodbye == <<"\n\nGoodbye!">>
MainError(e) == <<"\nError: ", e, "Try a different question, or type 'help' for examples.\n">>
At(stage, what) == [at |-> stage, what |-> what]

\* ------------------------------------------------------------------------
\* cli.py: the process
\* ------------------------------------------------------------------------
EntryPoints == {"module", "script"}
KeyStates == {"unset", "empty", "set"}
DotenvStates == {"absent", "set"}

\* the CLI is not running
IdleCli ==
    /\ pc = "off" /\ entry = "script" /\ envKey = "set" /\ dotenvKey = "absent"
    /\ packageImported = FALSE /\ agentsConstructed = 0 /\ exitStatus = <<>>
    /\ turns = 0 /\ inputsRead = 0 /\ user_input = <<>> /\ action = "none"
    /\ fields = <<>> /\ prompt = <<>> /\ invocations = 0 /\ turnInvocations = 0
    /\ ended = At("start", "none") /\ printed = <<>>

\* the CLI is started: through the package (the pmm-agent console script or
\* python -m pmm_agent.cli, which import pmm_agent first) or as the file cli.py
InitCli ==
    /\ entry \in EntryPoints
    /\ pc = IF entry = "module" THEN "import_package" ELSE "import_cli"
    /\ envKey \in KeyStates /\ dotenvKey \in DotenvStates
    /\ packageImported = FALSE /\ agentsConstructed = 0 /\ exitStatus = <<>>
    /\ turns = 0 /\ inputsRead = 0 /\ user_input = <<>> /\ action = "none"
    /\ fields = <<>> /\ prompt = <<>> /\ invocations = 0 /\ turnInvocations = 0
    /\ ended = At("start", "none") /\ printed = <<>>

\* os.getenv("ANTHROPIC_API_KEY") is truthy
HasKey == envKey = "set"

\* pmm_agent/__init__.py imports pmm_agent.agent, whose last statement constructs
\* an agent; without a key the model client either accepts or raises
import_package ==
    /\ pc = "import_package"
    /\ \E constructed \in BOOLEAN :
        /\ HasKey => constructed
        /\ IF constructed
           THEN /\ packageImported' = TRUE
                /\ agentsConstructed' = agentsConstructed + 1
                /\ pc' = "import_cli"
                /\ UNCHANGED <<exitStatus, ended>>
           ELSE /\ pc' = "exited"
                /\ exitStatus' = <<1>>
                /\ ended' = At("import", "Exception")
                /\ UNCHANGED <<packageImported, agentsConstructed>>
    /\ UNCHANGED <<entry, envKey, dotenvKey, turns, inputsRead, user_input, action, fields,
                   prompt, invocations, turnInvocations, printed, notCli>>

\* cli.py module level: load_dotenv() fills in a variable the environment lacks
load_dotenv ==
    /\ pc = "import_cli"
    /\ envKey' = IF envKey = "unset" /\ dotenvKey = "set" THEN "set" ELSE envKey
    /\ pc' = "main"
    /\ UNCHANGED <<entry, dotenvKey, packageImported, agentsConstructed, exitStatus,
                   loopVars, notCli>>

\* main: the key is missing
main_missing_key ==
    /\ pc = "main"
    /\ ~HasKey
    /\ printed' = <<"Error: ANTHROPIC_API_KEY not set.",
                    "Create a .env file with your API key or set the environment variable.">>
    /\ pc' = "exited"
    /\ exitStatus' = <<1>>
    /\ ended' = At("main", "missing_key")
    /\ UNCHANGED <<entry, envKey, dotenvKey, packageImported, agentsConstructed, turns,
                   inputsRead, user_input, action, fields, prompt, invocations,
                   turnInvocations, notCli>>

\* main: import pmm_agent (which constructs the module-level agent unless the
\* package is already imported), construct the agent, print the welcome
main_initialize ==
    /\ pc = "main"
    /\ HasKey
    /\ packageImported' = TRUE
    /\ agentsConstructed' = agentsConstructed + (IF packageImported THEN 1 ELSE 2)
    /\ printed' = <<"\nInitializing PMM Deep Agent...", "Ready!">> \o Welcome
    /\ pc' = "prompt"
    /\ ended' = At("main", "ready")
    /\ UNCHANGED <<entry, envKey, dotenvKey, exitStatus, turns, inputsRead, user_input,
                   action, fields, prompt, invocations, turnInvocations, notCli>>

\* ------------------------------------------------------------------------
\* cli.py: the loop of main
\* ------------------------------------------------------------------------
AtPrompt == pc = "prompt" /\ turns < MaxTurns

\* an iteration begins with the stripped line s read at "You: "
Begin(s) ==
    /\ turns' = turns + 1
    /\ inputsRead' = inputsRead + 1
    /\ user_input' = s
    /\ turnInvocations' = 0
    /\ fields' = <<>>

\* exit, quit, q, bye in any case: goodbye, break
main_exit ==
    /\ AtPrompt
    /\ \E line \in InputLines :
        /\ MainBranch(strip(line)) = "exit"
        /\ Begin(strip(line))
    /\ pc' = "exited"
    /\ exitStatus' = <<0>>
    /\ printed' = Goodbye
    /\ ended' = At("prompt", "exit")
    /\ UNCHANGED <<entry, envKey, dotenvKey, packageImported, agentsConstructed, action,
                   prompt, invocations, notCli>>

\* nothing typed: continue
main_empty ==
    /\ AtPrompt
    /\ \E line \in InputLines :
        /\ MainBranch(strip(line)) = "empty"
        /\ Begin(strip(line))
    /\ printed' = <<>>
    /\ ended' = At("prompt", "empty")
    /\ UNCHANGED <<procVars, action, prompt, invocations, notCli>>

\* help, ?, h in any case: print_welcome, continue
main_help ==
    /\ AtPrompt
    /\ \E line \in InputLines :
        /\ MainBranch(strip(line)) = "help"
        /\ Begin(strip(line))
    /\ printed' = Welcome
    /\ ended' = At("prompt", "help")
    /\ UNCHANGED <<procVars, action, prompt, invocations, notCli>>

\* "1".."6": handle_quick_pick up to its first input()
main_quick_pick ==
    /\ AtPrompt
    /\ \E line \in InputLines :
        /\ MainBranch(strip(line)) = "quick_pick"
        /\ Begin(strip(line))
        /\ action' = QUICK_PICKS[strip(line)[1]]
    /\ pc' = "field"
    /\ printed' = <<>>
    /\ ended' = At("prompt", "quick_pick")
    /\ UNCHANGED <<entry, envKey, dotenvKey, packageImported, agentsConstructed, exitStatus,
                   prompt, invocations, notCli>>

\* anything else: run_prompt(agent, user_input) up to agent.invoke
main_free_text ==
    /\ AtPrompt
    /\ \E line \in InputLines :
        /\ MainBranch(strip(line)) = "free_text"
        /\ Begin(strip(line))
        /\ prompt' = strip(line)
    /\ action' = "none"
    /\ pc' = "invoke"
    /\ printed' = <<>>
    /\ ended' = At("prompt", "free_text")
    /\ UNCHANGED <<entry, envKey, dotenvKey, packageImported, agentsConstructed, exitStatus,
                   invocations, notCli>>

\* an exception e raised inside the loop's try reaches main's except clauses
Propagate(stage, e, out) ==
    /\ ended' = At(stage, e)
    /\ CASE main_except(e) = "break" ->
                /\ pc' = "exited"
                /\ exitStatus' = <<0>>
                /\ printed' = out \o InterruptedGoodbye
         [] main_except(e) = "continue" ->
                /\ pc' = "prompt"
                /\ printed' = out \o MainError(e)
                /\ UNCHANGED exitStatus
         [] OTHER ->
                /\ pc' = "exited"
                /\ exitStatus' = <<1>>
                /\ printed' = out

\* input() raises: Ctrl-C (KeyboardInterrupt) or end of input (EOFError)
InputRaises == {"KeyboardInterrupt", "EOFError"}

\* input("You: ") raises
main_input_raises ==
    /\ AtPrompt
    /\ \E e \in InputRaises : Propagate("prompt", e, <<>>)
    /\ turns' = turns + 1
    /\ turnInvocations' = 0
    /\ UNCHANGED <<entry, envKey, dotenvKey, packageImported, agentsConstructed, inputsRead,
                   user_input, action, fields, prompt, invocations, notCli>>

\* handle_quick_pick: a follow-up line is read; then another is asked for, or the
\* missing field is reported, or run_prompt is called up to agent.invoke
handle_quick_pick ==
    /\ pc = "field"
    /\ \E line \in FieldLines :
        LET f == Append(fields, strip(line))
            step == QuickPickStep(action, f)
        IN  /\ fields' = f
            /\ printed' = step.out
            /\ CASE step.next = "more" ->
                        /\ pc' = "field"
                        /\ ended' = At("field", "more")
                        /\ UNCHANGED prompt
                 [] step.next = "missing" ->
                        /\ pc' = "prompt"
                        /\ ended' = At("field", "missing")
                        /\ UNCHANGED prompt
                 [] step.next = "run" ->
                        /\ pc' = "invoke"
                        /\ ended' = At("field", "run")
                        /\ prompt' = QuickPickPrompt(action, f)
    /\ inputsRead' = inputsRead + 1
    /\ UNCHANGED <<entry, envKey, dotenvKey, packageImported, agentsConstructed, exitStatus,
                   turns, user_input, action, invocations, turnInvocations, notCli>>

\* a follow-up input() raises
quick_pick_input_raises ==
    /\ pc = "field"
    /\ \E e \in InputRaises : Propagate("field", e, <<>>)
    /\ UNCHANGED <<entry, envKey, dotenvKey, packageImported, agentsConstructed, turns,
                   inputsRead, user_input, action, fields, prompt, invocations,
                   turnInvocations, notCli>>

\* run_prompt from agent.invoke on: the agent returns or raises, run_prompt prints
\* the response or the error, and what it lets through reaches main
agent_invoke ==
    /\ pc = "invoke"
    /\ \E o \in InvokeOutcomes :
        LET r == run_prompt(o)
        IN  /\ invocations' = invocations + Attempts(o)
            /\ turnInvocations' = turnInvocations + Attempts(o)
            /\ IF r.raised = "none"
               THEN /\ pc' = "prompt"
                    /\ printed' = r.out
                    /\ ended' = At("invoke", IF TryBody(o).raised = "none" THEN "response"
                                             ELSE TryBody(o).raised)
                    /\ UNCHANGED exitStatus
               ELSE Propagate("invoke", r.raised, r.out)
    /\ UNCHANGED <<entry, envKey, dotenvKey, packageImported, agentsConstructed, turns,
                   inputsRead, user_input, action, fields, prompt, notCli>>

NextCli ==
    \/ import_package
    \/ load_dotenv
    \/ main_missing_key
    \/ main_initialize
    \/ main_exit
    \/ main_empty
    \/ main_help
    \/ main_quick_pick
    \/ main_free_text
    \/ main_input_raises
    \/ handle_quick_pick
    \/ quick_pick_input_raises
    \/ agent_invoke

\* ------------------------------------------------------------------------
\* agent.py quick-start functions and cli.py run_prompt, called directly
\* ------------------------------------------------------------------------
NoCaller == "none"
NoOutcome == [kind |-> "none", has_messages |-> FALSE, messages |-> <<>>]
NoResult == [kind |-> "none", value |-> <<>>]

IdleCallers ==
    /\ caller = NoCaller /\ callerArgs = <<>> /\ sent = <<>>
    /\ received = NoOutcome /\ result = NoResult

QuickStarts == {"evaluate_homepage", "create_positioning", "compare_competitors"}

\* sep.join(l) on a list of str
RECURSIVE Join(_, _)
Join(sep, l) ==
    IF Len(l) = 0 THEN <<>>
    ELSE IF Len(l) = 1 THEN l[1]
    ELSE l[1] \o <<sep>> \o Join(sep, Tail(l))

\* [f"- {url}" for url in competitor_urls]
Bulleted(l) == [i \in 1..Len(l) |-> <<"- ">> \o l[i]]

\* the content of the one user message evaluate_homepage sends
EvaluateHomepagePrompt(a) ==
    <<"Run a complete PMM audit on the homepage at ">> \o Format(a.url)
    \o <<". Include 5-second test, positioning analysis, messaging analysis, and anti-pattern detection. Provide prioritized recommendations.">>

\* the content create_positioning sends: optional lines only for truthy arguments
CreatePositioningPrompt(a) ==
    <<"Create a positioning canvas for: ">> \o Format(a.product_description)
    \o (IF Truthy(a.target_audience)
        THEN <<"\nTarget audience: ">> \o Format(a.target_audience) ELSE <<>>)
    \o (IF Truthy(a.competitors)
        THEN <<"\nCompetitors: ">> \o Join(", ", a.competitors.v) ELSE <<>>)
    \o <<"\n\nAfter the positioning canvas, also create a messaging framework.">>

\* the content compare_competitors sends
CompareCompetitorsPrompt(a) ==
    <<"Analyze my homepage (">> \o Format(a.your_url)
    \o <<") against these competitors:\n">> \o Join("\n", Bulleted(a.competitor_urls.v))
    \o <<"\n\nFor each competitor:\n1. Analyze their positioning and messaging\n2. Identify their weaknesses\n3. Find differentiation opportunities for me\n\nThen provide:\n- Overall competitive landscape summary\n- My unique positioning opportunities\n- \"Unlike X, we Y\" statements for each competitor\n- Recommended positioning angle\n">>

\* `return agent.invoke(...)`: the result as received, an exception not caught
QuickStartReturn(o) ==
    IF o.kind = "raise" THEN [kind |-> "raise", value |-> o.messages[1]]
    ELSE [kind |-> "return", value |-> o]

EvaluateHomepageArgs == [url : StrArgs, model : ModelNameArgs]
CreatePositioningArgs ==
    [ product_description : StrArgs, target_audience : OptStrArgs,
      competitors : OptListArgs, model : ModelNameArgs ]
CompareCompetitorsArgs == [your_url : StrArgs, competitor_urls : ListArgs, model : ModelNameArgs]
RunPromptArgs == [prompt : StrArgs]

CallerArgs(f) ==
    CASE f = "evaluate_homepage" -> EvaluateHomepageArgs
      [] f = "create_positioning" -> CreatePositioningArgs
      [] f = "compare_competitors" -> CompareCompetitorsArgs
      [] f = "run_prompt" -> RunPromptArgs

InitCallers ==
    /\ caller \in QuickStarts \cup {"run_prompt"}
    /\ callerArgs \in CallerArgs(caller)
    /\ sent = <<>>
    /\ received = NoOutcome
    /\ result = NoResult

\* the quick start's own create_pmm_agent(model=model, mode=...) call, the other
\* parameters at their defaults
CreateQuickStartAgent(model, mode) ==
    /\ factoryCalls < MaxCalls
    /\ factoryArgs' = [ model |-> model, mode |-> mode, use_memory |-> TRUE,
                        include_subagents |-> TRUE ]
    /\ handed' = Assembly(model, mode, TRUE, TRUE)
    /\ factoryLog' = Append(factoryLog,
            [ mode |-> mode, use_memory |-> TRUE, include_subagents |-> TRUE,
              tools |-> Assembly(model, mode, TRUE, TRUE).tools,
              subagents |-> Assembly(model, mode, TRUE, TRUE).subagents ])
    /\ factoryCalls' = factoryCalls + 1
    /\ UNCHANGED <<running_in_langgraph_api, registry>>

DirectCall(f) == caller = f /\ result = NoResult

evaluate_homepage ==
    /\ DirectCall("evaluate_homepage")
    /\ CreateQuickStartAgent(callerArgs.model, "evaluate")
    /\ sent' = EvaluateHomepagePrompt(callerArgs)
    /\ \E o \in InvokeOutcomes :
            /\ received' = o
            /\ result' = QuickStartReturn(o)
    /\ UNCHANGED <<caller, callerArgs, notCallers>>

create_positioning ==
    /\ DirectCall("create_positioning")
    /\ CreateQuickStartAgent(callerArgs.model, "create")
    /\ sent' = CreatePositioningPrompt(callerArgs)
    /\ \E o \in InvokeOutcomes :
            /\ received' = o
            /\ result' = QuickStartReturn(o)
    /\ UNCHANGED <<caller, callerArgs, notCallers>>

compare_competitors ==
    /\ DirectCall("compare_competitors")
    /\ CreateQuickStartAgent(callerArgs.model, "evaluate")
    /\ sent' = CompareCompetitorsPrompt(callerArgs)
    /\ \E o \in InvokeOutcomes :
            /\ received' = o
            /\ result' = QuickStartReturn(o)
    /\ UNCHANGED <<caller, callerArgs, notCallers>>

\* run_prompt(agent, prompt) with an agent built elsewhere
call_run_prompt ==
    /\ DirectCall("run_prompt")
    /\ sent' = Format(callerArgs.prompt)
    /\ \E o \in InvokeOutcomes :
            /\ received' = o
            /\ result' = [kind |-> "print", value |-> run_prompt(o)]
    /\ UNCHANGED <<caller, callerArgs, factoryVars, notCallers>>

NextCallers ==
    \/ evaluate_homepage
    \/ create_positioning
    \/ compare_competitors
    \/ call_run_prompt

\* ------------------------------------------------------------------------
\* Specifications
\* ------------------------------------------------------------------------
\* one template operation, applied to every argument tuple of its ArgSpace
InitSpecTools == InitTools /\ IdleReplay /\ InitFactory /\ ~running_in_langgraph_api /\ IdleModels /\ IdleCli /\ IdleCallers
SpecTools == InitSpecTools /\ [][NextTools]_vars

\* create_pmm_agent called up to MaxCalls times with any arguments
InitSpecFactory == IdleTools /\ IdleReplay /\ InitFactory /\ IdleModels /\ IdleCli /\ IdleCallers
SpecFactory == InitSpecFactory /\ [][NextFactory]_vars

\* one evaluation record, constructed from every value tuple of its DataSpace
InitSpecModels == IdleTools /\ IdleReplay /\ InitFactory /\ ~running_in_langgraph_api /\ InitModels /\ IdleCli /\ IdleCallers
SpecModels == InitSpecModels /\ [][NextModels]_vars

\* one template operation invoked, other operations invoked, the first repeated
InitSpecReplay ==
    InitReplay /\ InitFactory /\ ~running_in_langgraph_api /\ IdleModels /\ IdleCli
    /\ IdleCallers
SpecReplay == InitSpecReplay /\ [][NextReplay]_vars

\* the command-line interface, from process start
InitSpecCli == IdleTools /\ IdleReplay /\ InitFactory /\ ~running_in_langgraph_api /\ IdleModels /\ InitCli /\ IdleCallers
SpecCli == InitSpecCli /\ [][NextCli]_vars

\* one direct call of a quick-start function or of run_prompt, with any arguments
\* and any outcome of the agent
InitSpecCallers ==
    IdleTools /\ IdleReplay /\ InitFactory /\ IdleModels /\ IdleCli /\ InitCallers
SpecCallers == InitSpecCallers /\ [][NextCallers]_vars

\* ========================================================================
\* Properties of the template operations (checked under SpecTools)
\* ========================================================================
Instructions == envelope.instructions.v

NonEmptyString(y) == y.j = "string" /\ Len(y.v) > 0

HasTaskAndInstructions ==
    /\ {"task", "instructions"} \subseteq DOMAIN envelope
    /\ NonEmptyString(envelope.task)
    /\ NonEmptyString(envelope.instructions)

\* parameter p of the call came back as key p of the envelope with the value passed
Echoed(p) == p \in DOMAIN envelope /\ FromJson(envelope[p]) = args[p]

\* C2: every returned envelope holds 'task', 'instructions' and, for every input
\* parameter of the operation, a key of that name whose value is the value passed.
C2_EchoesEveryParameter ==
    Returned =>
        /\ {"task", "instructions"} \subseteq DOMAIN envelope
        /\ \A p \in DOMAIN args : Echoed(p)

\* the (operation, optional parameter) pairs whose value the template interpolates
Interpolated ==
    { <<"generate_rewrite", "target_persona">>,
      <<"generate_rewrite", "competitive_alternative">>,
      <<"fetch_homepage", "extract_mode">>,
      <<"fetch_competitor_homepage", "your_url">>,
      <<"analyze_landing_page", "campaign_context">>,
      <<"create_positioning_canvas", "target_audience">>,
      <<"create_positioning_canvas", "known_competitors">>,
      <<"create_positioning_canvas", "unique_capabilities">>,
      <<"create_messaging_framework", "primary_persona">>,
      <<"create_messaging_framework", "secondary_personas">>,
      <<"create_homepage_wireframe", "style">>,
      <<"generate_differentiation_statements", "target_audience">> }

Provided(p) == args[p] # PyNone

AtDefaults == \A p \in OptionalParams(op) : args[p] = Defaults[op][p]

\* C4: called with the required inputs only, every operation returns an envelope
\* whose 'task' and 'instructions' are non-empty strings, also for empty inputs.
C4_RequiredOnlyGivesTaskAndInstructions ==
    (Returned /\ AtDefaults) => HasTaskAndInstructions

C4_Witness ==
    /\ Returned
    /\ AtDefaults
    /\ op = "scrape_social_proof"
    /\ args.url = PyStr(<<>>)

ClosedParams(o) == IF o \in DOMAIN ClosedSets THEN DOMAIN ClosedSets[o] ELSE {}

OutOfSet(p) == ~ \E x \in ClosedSets[op][p] : args[p] = PyStr(<<x>>)

IssueSpecificTexts == {rewrite_instructions[k] : k \in DOMAIN rewrite_instructions}

FiveAssetTypes == {"homepage", "landing_page", "sales_deck", "email", "ad"}
EightIssueTypes ==
    { "unclear_headline", "jargon_buzzwords", "feature_dump", "no_specificity",
      "clever_over_clear", "weak_cta", "generic_value_prop", "no_competitive_frame" }

\* C17: the closed sets are the documented ones: asset_type is the five asset types
\* for run_five_second_test and run_complete_pmm_audit, and those plus 'all' for
\* detect_anti_patterns only; issue_type of generate_rewrite is the eight issue
\* types, each with a fix-approach text of its own, which generate_rewrite renders
\* for it; extract_mode of fetch_homepage is full, above_fold, hero_only.
C17_ClosedSetsAsDocumented ==
    /\ ClosedSets.run_five_second_test.asset_type = FiveAssetTypes
    /\ ClosedSets.run_complete_pmm_audit.asset_type = FiveAssetTypes
    /\ ClosedSets.detect_anti_patterns.asset_type = FiveAssetTypes \cup {"all"}
    /\ \A o \in DOMAIN ClosedSets :
          \A p \in DOMAIN ClosedSets[o] :
              "all" \in ClosedSets[o][p] => o = "detect_anti_patterns"
    /\ {o \in DOMAIN ClosedSets : "asset_type" \in DOMAIN ClosedSets[o]}
          = {"run_five_second_test", "run_complete_pmm_audit", "detect_anti_patterns"}
    /\ ClosedSets.generate_rewrite.issue_type = EightIssueTypes
    /\ DOMAIN rewrite_instructions = EightIssueTypes
    /\ Cardinality(IssueSpecificTexts) = 8
    /\ DefaultFixApproach \notin IssueSpecificTexts
    /\ ClosedSets.fetch_homepage.extract_mode = {"full", "above_fold", "hero_only"}
    /\ (Returned /\ op = "generate_rewrite") =>
          \A k \in EightIssueTypes :
              args.issue_type = PyStr(<<k>>) =>
                  /\ Contains(Instructions, <<"**Fix approach:** ", rewrite_instructions[k]>>)
                  /\ \A i \in 1..Len(Instructions) :
                        Instructions[i] \in IssueSpecificTexts \cup {DefaultFixApproach}
                            => Instructions[i] = rewrite_instructions[k]

\* generate_rewrite rendered the fix approach of no_competitive_frame
C17_Witness ==
    /\ Returned
    /\ op = "generate_rewrite"
    /\ args.issue_type = PyStr(<<"no_competitive_frame">>)
    /\ Contains(Instructions, <<"**Fix approach:** ", "Add 'Unlike X' or 'Instead of Y' framing.">>)

\* where a heading stands in the instructions (0: nowhere)
Position(heading) ==
    IF \E i \in 1..Len(Instructions) : Instructions[i] = heading
    THEN CHOOSE i \in 1..Len(Instructions) : Instructions[i] = heading
    ELSE 0

\* the six analyses, as the audit report numbers them
AuditAnalyses ==
    << "## 1. 5-SECOND TEST", "## 2. POSITIONING ANALYSIS", "## 3. MESSAGING ANALYSIS",
       "## 4. HOMEPAGE STRUCTURE (if applicable)", "## 5. ANTI-PATTERNS DETECTED",
       "## 6. ICP CLARITY" >>

\* every analysis is asked for, in the order of their numbers, in the one text
RequestsEveryAnalysis ==
    /\ \A k \in 1..Len(AuditAnalyses) : Position(AuditAnalyses[k]) > 0
    /\ \A k \in 1..(Len(AuditAnalyses) - 1) :
          Position(AuditAnalyses[k]) < Position(AuditAnalyses[k + 1])

\* the headings under PRIORITIZED ISSUES, up to the next section
PrioritizedBuckets ==
    {Instructions[i] : i \in (Position("## PRIORITIZED ISSUES") + 1)
                             ..(Position("## WHAT'S WORKING") - 1)}

AuditReturned == Returned /\ op = "run_complete_pmm_audit"

\* C19 as stated: the complete-audit instructions ask for every analysis in one
\* pass and for the issues in one bucket per issue list of PMMEvaluationResult
\* (critical, high, medium, low).
C19_AuditBucketsMatchResultBuckets ==
    AuditReturned =>
        /\ RequestsEveryAnalysis
        /\ Position("## PRIORITIZED ISSUES") > 0
        /\ Cardinality(PrioritizedBuckets) = Cardinality(DOMAIN IssueBuckets)

\* C19, amended: the complete-audit instructions ask for every analysis in one pass
\* (five-second test, positioning, messaging, homepage structure, anti-patterns,
\* ICP) and for the issues in three buckets, Critical, High Priority and Nice to
\* Have: one fewer than the four issue lists of PMMEvaluationResult, with no
\* bucket for medium or for low.
C19_AuditAsksThreeBuckets ==
    AuditReturned =>
        /\ RequestsEveryAnalysis
        /\ Position("## PRIORITIZED ISSUES") > Position("## 6. ICP CLARITY")
        /\ PrioritizedBuckets = { "### Critical (Fix This Week)",
                                  "### High Priority (Fix This Month)",
                                  "### Nice to Have" }
        /\ Cardinality(PrioritizedBuckets) = Cardinality(DOMAIN IssueBuckets) - 1

\* a complete audit of a sales deck came back asking for the Nice to Have bucket
C19_Witness ==
    /\ AuditReturned
    /\ args.asset_type = PyStr(<<"sales_deck">>)
    /\ Position("### Nice to Have") > Position("### High Priority (Fix This Month)")

\* ========================================================================
\* Properties of the agent factory (checked under SpecFactory)
\* ========================================================================
Range(q) == {q[i] : i \in 1..Len(q)}

\* C1: the tool list handed to the agent constructor is fixed by mode: 'evaluate'
\* gives the 9 evaluation tools followed by the 4 web tools, 'create' the 4 creation
\* tools and nothing else, 'full' all 17; the evaluate and create lists are disjoint
\* and their union is the full list.
C1_ToolsFixedByMode ==
    factoryCalls > 0 =>
        /\ factoryArgs.mode = "evaluate" =>
              handed.tools = << "run_five_second_test", "analyze_positioning",
                                "analyze_messaging", "analyze_homepage_structure",
                                "detect_anti_patterns", "generate_rewrite",
                                "build_competitive_frame", "analyze_icp",
                                "run_complete_pmm_audit", "fetch_homepage",
                                "fetch_competitor_homepage", "analyze_landing_page",
                                "scrape_social_proof" >>
        /\ factoryArgs.mode = "create" =>
              handed.tools = << "create_positioning_canvas", "create_messaging_framework",
                                "create_homepage_wireframe",
                                "generate_differentiation_statements" >>
        /\ factoryArgs.mode = "full" =>
              /\ Len(handed.tools) = 17
              /\ Cardinality(Range(handed.tools)) = 17
              /\ Range(handed.tools) = Operations
              /\ Range(SelectTools("evaluate")) \cup Range(SelectTools("create"))
                    = Range(handed.tools)
        /\ Range(SelectTools("evaluate")) \cap Range(SelectTools("create")) = {}

C1_Witness ==
    /\ factoryCalls > 0
    /\ factoryArgs.mode = "evaluate"
    /\ Len(handed.tools) = 13

SameArguments(a, b) ==
    /\ a.mode = b.mode
    /\ a.use_memory = b.use_memory
    /\ a.include_subagents = b.include_subagents

SpecialistNames ==
    << "positioning-analyst", "messaging-analyst", "homepage-analyst",
       "anti-pattern-detector", "icp-analyst", "competitive-analyst" >>

\* C13: with include_subagents true the subagent list handed to the agent
\* constructor is the six specialist records, in the order positioning-analyst,
\* messaging-analyst, homepage-analyst, anti-pattern-detector, icp-analyst,
\* competitive-analyst, with pairwise distinct names; with include_subagents false
\* it is the empty list; in every mode and for every use_memory.
C13_SubagentsAllOrNone ==
    \A i \in 1..Len(factoryLog) :
        IF factoryLog[i].include_subagents
        THEN /\ factoryLog[i].subagents = PMM_SUBAGENTS
             /\ [k \in 1..Len(factoryLog[i].subagents) |-> factoryLog[i].subagents[k].name]
                    = SpecialistNames
             /\ Cardinality(Range(SpecialistNames)) = 6
        ELSE factoryLog[i].subagents = <<>>

\* a call in mode "create" without memory asked for the specialists and got six
C13_Witness ==
    /\ factoryCalls > 0
    /\ factoryArgs.mode = "create"
    /\ factoryArgs.include_subagents
    /\ ~factoryArgs.use_memory
    /\ Len(handed.subagents) = 6
    /\ handed.subagents[6].name = "competitive-analyst"

\* ========================================================================
\* Properties of the evaluation records (checked under SpecModels)
\* ========================================================================
ScoreFieldNames ==
    { "specificity_score", "competitive_frame_score", "target_audience_score",
      "differentiation_score", "problem_clarity_score", "overall_score", "quality_score",
      "structure_score", "clarity_score", "benefit_orientation_score",
      "headline_clarity_score", "cta_clarity_score", "information_hierarchy_score" }

NestedRecordNames ==
    { "target_customer", "competitive_alternative", "strategy", "messaging_house",
      "five_second_test", "hero", "social_proof", "positioning", "messaging", "homepage" }

NestedListNames ==
    {"layers", "critical_issues", "high_priority_issues", "medium_issues", "low_issues"}

\* every score held by the record d or by a record nested in it, as <<location, value>>
RECURSIVE Scores(_, _)
Scores(d, at) ==
    UNION { IF n \in ScoreFieldNames THEN {<<Append(at, n), d[n]>>}
            ELSE IF n \in NestedRecordNames THEN Scores(d[n], Append(at, n))
            ELSE IF n \in NestedListNames
                 THEN UNION { Scores(d[n][i], at \o <<n, IndexName[i]>>) : i \in 1..Len(d[n]) }
            ELSE {}
            : n \in DOMAIN d }

InScoreRange(x) == x \in 0..100

\* C6: every *_score field of every evaluation record accepts exactly the integers
\* 0..100: a value in the range is not rejected (0 and 100 included), a value below 0
\* or above 100 makes construction fail, and a constructed record holds no score
\* outside [0,100].
C6_ScoresWithinRange ==
    validation \in {"ok", "ValidationError"} =>
        /\ \A s \in Scores(data, <<>>) : InScoreRange(s[2]) <=> s[1] \notin errors
        /\ (\E s \in Scores(data, <<>>) : ~InScoreRange(s[2])) =>
              (validation = "ValidationError" /\ IsNone(instance))
        /\ validation = "ok" =>
              (instance = data /\ \A s \in Scores(instance, <<>>) : InScoreRange(s[2]))

C6_Witness ==
    /\ validation = "ok"
    /\ cls = "PositioningStrategy"
    /\ data.competitive_frame_score = 0
    /\ data.problem_clarity_score = 100

\* ------------------------------------------------------------------------
\* The command-line loop
\* ------------------------------------------------------------------------
TokenIn(tok, out) == \E i \in 1..Len(out) : out[i] = tok

\* the step just taken was an agent invocation that raised, or returned a result
\* without a last message
InvocationRaised == ended.at = "invoke" /\ ended.what # "response"

\* C7 as stated: every exception raised while the agent is invoked is caught and
\* printed as "Error: ...", the loop goes back to reading input, and neither the
\* loop nor the process ends.
C7_AnyInvocationExceptionKeepsLoop ==
    InvocationRaised =>
        /\ pc = "prompt"
        /\ exitStatus = <<>>
        /\ TokenIn("\nError: ", printed)

\* C7, amended: an exception derived from Exception raised while the agent is
\* invoked (a result without messages included) is caught by run_prompt, printed
\* as "Error: ...", and the loop goes back to reading input; a KeyboardInterrupt
\* raised while the agent is invoked is not caught by run_prompt: main's handler
\* prints the goodbye and the loop ends, with exit status 0.
C7_ExceptionsCaughtInterruptEndsLoop ==
    /\ (ended.at = "invoke" /\ IsException(ended.what)) =>
            /\ pc = "prompt"
            /\ exitStatus = <<>>
            /\ printed = <<"\nAnalyzing...\n", "\nError: ", ended.what>>
    /\ (ended.at = "invoke" /\ ended.what = "KeyboardInterrupt") =>
            /\ pc = "exited"
            /\ exitStatus = <<0>>
            /\ printed = <<"\nAnalyzing...\n">> \o InterruptedGoodbye
    /\ InvocationRaised => (IsException(ended.what) \/ ended.what = "KeyboardInterrupt")

\* an invocation returned a result without messages, the error was printed and
\* the loop is back at its prompt
C7_Witness ==
    /\ ended = At("invoke", "IndexError")
    /\ pc = "prompt"
    /\ TokenIn("\nError: ", printed)

\* C8 as stated: when main finds ANTHROPIC_API_KEY unset or empty it exits with
\* status 1 before any agent is constructed and before any input is read.
C8_MissingKeyExitsBeforeAnyAgent ==
    ended = At("main", "missing_key") =>
        /\ pc = "exited"
        /\ exitStatus = <<1>>
        /\ agentsConstructed = 0
        /\ inputsRead = 0

\* the required fields of a quick pick, by position
Required(a) == IF a = "competitor_compare" THEN {1, 2} ELSE {1}
\* a required field of the quick pick in progress has been read blank
BlankRequired == \E i \in Required(action) : i <= Len(fields) /\ Len(fields[i]) = 0
OmissionMessages ==
    {<<"No URL provided.">>, <<"No product description provided.">>, <<"Both URLs are required.">>}

\* C9: when a required field of a quick pick is entered blank, the CLI prints the
\* omission, the agent is not invoked in that turn, no exception ends the turn,
\* and the loop is back at its prompt (the competitor comparison once both of
\* its URLs have been read); a quick pick reaches the agent only with every
\* required field filled.
C9_BlankRequiredFieldSkipsInvocation ==
    /\ (ended.at = "field" /\ ended.what \in {"missing", "run"} /\ BlankRequired) =>
            /\ ended.what = "missing"
            /\ pc = "prompt"
            /\ exitStatus = <<>>
            /\ printed \in OmissionMessages
            /\ turnInvocations = 0
    /\ ended = At("field", "missing") => BlankRequired
    /\ (action # "none" /\ (pc = "invoke" \/ turnInvocations > 0)) => ~BlankRequired

\* the competitor comparison was given its first URL and a blank second one
C9_Witness ==
    /\ ended = At("field", "missing")
    /\ action = "competitor_compare"
    /\ Len(fields) = 2 /\ Len(fields[1]) > 0 /\ Len(fields[2]) = 0
    /\ pc = "prompt"

\* C10: a turn that reaches the agent (free text, or a quick pick with its
\* required fields) invokes it exactly once; a failed invocation is not repeated,
\* and after it the loop is back at its prompt.
C10_OneInvocationPerTurn ==
    /\ turnInvocations <= 1
    /\ invocations <= turns
    /\ pc = "invoke" => turnInvocations = 0
    /\ ended.at = "invoke" => turnInvocations = 1
    /\ (ended.at = "invoke" /\ IsException(ended.what)) => (pc = "prompt" /\ exitStatus = <<>>)

\* a quick pick's invocation raised, once, and the loop is back at its prompt
C10_Witness ==
    /\ ended = At("invoke", "Exception")
    /\ action # "none"
    /\ turnInvocations = 1
    /\ pc = "prompt"

Misfiled(b, i) == data[b][i].severity # Severity[IssueBuckets[b]]

\* C14: constructing a PMMEvaluationResult checks no issue's severity against the
\* list that holds it: every error location inside an issue list is the category
\* or the severity of an issue that is itself not a valid PMMIssue, and a result
\* that has no error is accepted as given, misfiled issues included.
C14_NoBucketSeverityCheck ==
    (cls = "PMMEvaluationResult" /\ validation # "pending") =>
        /\ \A e \in errors :
              e[1] \in DOMAIN IssueBuckets =>
                  /\ Len(e) = 3
                  /\ \E i \in 1..Len(data[e[1]]) :
                        /\ e[2] = IndexName[i]
                        /\ \/ e[3] = "severity" /\ data[e[1]][i].severity \notin 1..4
                           \/ e[3] = "category" /\ data[e[1]][i].category \notin IssueCategories
        /\ errors = {} => (validation = "ok" /\ instance = data)

\* a result was accepted with a LOW issue among the critical ones, a LOW one among
\* the high-priority ones, and CRITICAL ones among the medium and the low ones
C14_Witness ==
    /\ cls = "PMMEvaluationResult"
    /\ validation = "ok"
    /\ \A b \in DOMAIN IssueBuckets : Len(instance[b]) = 1 /\ Misfiled(b, 1)
    /\ instance.critical_issues[1].severity = Severity.LOW
    /\ instance.low_issues[1].severity = Severity.CRITICAL

DocumentedLayers ==
    <<"positioning_statement", "value_proposition", "key_messages", "proof_points", "micro_copy">>
LayerNamesOf(ls) == [i \in 1..Len(ls) |-> ls[i].layer_name]

\* a MessagingLayer is accepted for its name exactly when the name is one of the
\* five documented ones
LayerNameChecked ==
    (cls = "MessagingLayer" /\ validation # "pending") =>
        (<<"layer_name">> \notin errors <=> data.layer_name \in Range(DocumentedLayers))

StrictlyComparable(enum) ==
    \A a, b \in DOMAIN enum : a # b => (enum[a] < enum[b] \/ enum[b] < enum[a])

\* C16: Severity has exactly the 4 members LOW < MEDIUM < HIGH < CRITICAL, ScoreLevel
\* exactly the 5 members FAILING < POOR < NEEDS_WORK < GOOD < EXCELLENT with the
\* values 0, 25, 50, 75, 100, any two distinct members of either compare strictly,
\* and a PMMIssue is accepted for its severity exactly when it is a Severity value.
C16_EnumerationsTotallyOrdered ==
    /\ DOMAIN Severity = {"LOW", "MEDIUM", "HIGH", "CRITICAL"}
    /\ Cardinality(DOMAIN Severity) = 4
    /\ Severity.LOW < Severity.MEDIUM
    /\ Severity.MEDIUM < Severity.HIGH
    /\ Severity.HIGH < Severity.CRITICAL
    /\ StrictlyComparable(Severity)
    /\ DOMAIN ScoreLevel = {"FAILING", "POOR", "NEEDS_WORK", "GOOD", "EXCELLENT"}
    /\ Cardinality(DOMAIN ScoreLevel) = 5
    /\ <<ScoreLevel.FAILING, ScoreLevel.POOR, ScoreLevel.NEEDS_WORK, ScoreLevel.GOOD,
         ScoreLevel.EXCELLENT>> = <<0, 25, 50, 75, 100>>
    /\ StrictlyComparable(ScoreLevel)
    /\ (cls = "PMMIssue" /\ validation # "pending") =>
            (<<"severity">> \notin errors
                <=> data.severity \in {Severity[m] : m \in DOMAIN Severity})

\* a PMMIssue of the highest severity was accepted
C16_Witness ==
    /\ cls = "PMMIssue"
    /\ validation = "ok"
    /\ instance.severity = Severity.CRITICAL
    /\ \A m \in DOMAIN Severity : Severity[m] <= instance.severity

\* C18 as stated: every alternative_type that CompetitiveAlternative accepts (the
\* five values direct_competitor, manual_process, status_quo, homegrown,
\* spreadsheets) is accepted by PositioningCanvas too.
C18_CanvasAcceptsEveryAlternativeType ==
    (cls = "PositioningCanvas" /\ validation # "pending") =>
        (Validate("CompetitiveAlternative", CA(data.alternative_type)) = {}
            => <<"alternative_type">> \notin errors)


\* the agent answered with a result whose message list has a last message
Answered == received.kind = "result" /\ received.has_messages /\ Len(received.messages) > 0

LastContent == received.messages[Len(received.messages)]

\* C20: the response is passed through unchanged.  After run_prompt, when the agent
\* answered with a last message, what was printed is the progress line followed by
\* exactly that message's content, and nothing was raised; after evaluate_homepage,
\* create_positioning or compare_competitors, whenever the agent returned a result
\* (with or without messages), the value returned is that result itself.
C20_ResponsePassedThrough ==
    /\ (caller = "run_prompt" /\ result # NoResult /\ Answered)
            => result = [ kind |-> "print",
                          value |-> [ raised |-> "none",
                                      out |-> <<"\nAnalyzing...\n">> \o LastContent ] ]
    /\ (caller \in QuickStarts /\ received.kind = "result")
            => result = [kind |-> "return", value |-> received]

\* run_prompt has printed a response that begins and ends with a space, spaces kept
C20_Witness ==
    /\ caller = "run_prompt"
    /\ received = PaddedResult
    /\ result.kind = "print"
    /\ result.value.out = <<"\nAnalyzing...\n", " ", "r", " ">>


\* the branches as documented: the exit words, the empty line, the help words, the
\* six digits, anything else; letters compared without regard to case
ExitWords == {"exit", "quit", "q", "bye"}
HelpWords == {"help", "?", "h"}
Spelled(w) ==
    CASE w = "exit" -> <<"e", "x", "i", "t">>
      [] w = "quit" -> <<"q", "u", "i", "t">>
      [] w = "q" -> <<"q">>
      [] w = "bye" -> <<"b", "y", "e">>
      [] w = "help" -> <<"h", "e", "l", "p">>
      [] w = "?" -> <<"?">>
      [] w = "h" -> <<"h">>
SameLetter(a, b) ==
    \/ a = b
    \/ a \in DOMAIN UpperToLower /\ UpperToLower[a] = b
SameWord(s, w) ==
    /\ Len(s) = Len(Spelled(w))
    /\ \A i \in 1..Len(s) : SameLetter(s[i], Spelled(w)[i])
IsDigitPick(s) == s \in {<<"1">>, <<"2">>, <<"3">>, <<"4">>, <<"5">>, <<"6">>}
BranchesOf(s) ==
    {b \in {"exit", "empty", "help", "quick_pick", "free_text"} :
        CASE b = "exit" -> \E w \in ExitWords : SameWord(s, w)
          [] b = "empty" -> s = <<>>
          [] b = "help" -> \E w \in HelpWords : SameWord(s, w)
          [] b = "quick_pick" -> IsDigitPick(s)
          [] b = "free_text" ->
                /\ ~\E w \in ExitWords \cup HelpWords : SameWord(s, w)
                /\ s # <<>> /\ ~IsDigitPick(s)}

\* the line read at the main prompt has just been dispatched
Dispatched ==
    ended.at = "prompt" /\ ended.what \in {"exit", "empty", "help", "quick_pick", "free_text"}

\* C21: every stripped line read at the main prompt belongs to exactly one of the
\* documented branches and is handled by that branch; the exit, empty and help
\* branches leave the loop or return to the prompt without invoking the agent; the
\* agent is only about to be invoked, or has just been, in a turn whose line was a
\* quick pick or free text; and a line '1'..'6' is never itself the prompt sent.
C21_OneBranchPerLine ==
    /\ Dispatched =>
            /\ BranchesOf(user_input) = {ended.what}
            /\ user_input = strip(user_input)
            /\ turnInvocations = 0
            /\ ended.what = "exit" => pc = "exited" /\ printed = Goodbye
            /\ ended.what = "empty" => pc = "prompt" /\ printed = <<>>
            /\ ended.what = "help" => pc = "prompt" /\ printed = Welcome
            /\ ended.what = "quick_pick" => pc = "field"
            /\ ended.what = "free_text" => pc = "invoke" /\ prompt = user_input
    /\ (pc = "invoke" \/ turnInvocations > 0) =>
            /\ BranchesOf(user_input) \subseteq {"quick_pick", "free_text"}
            /\ IsDigitPick(user_input) => prompt # user_input

\* QUIT typed in capitals has ended the loop
C21_Witness ==
    /\ ended = At("prompt", "exit")
    /\ user_input = <<"Q", "U", "I", "T">>
    /\ pc = "exited"


\* the four clarity questions, each with its scale, as the instructions word them
ClarityQuestions ==
    << "1. **What do they do?** (clear/partial/unclear)",
       "2. **Who is it for?** (clear/partial/unclear)",
       "3. **What makes it different?** (clear/partial/unclear)",
       "4. **What to do next?** (clear/partial/unclear)" >>

FiveSecondReturned ==
    Returned /\ op = "run_five_second_test" /\ args.asset_type \in Literal(AssetTypes)

\* C22: for every asset_content and every asset_type of the closed set,
\* run_five_second_test returns an envelope whose asset_type is the given one and
\* whose instructions hold the four clarity questions, in order, each with the
\* clear/partial/unclear scale; the instructions are one constant text, the same
\* for every asset_content and asset_type.
C22_FiveSecondEnvelope ==
    FiveSecondReturned =>
        /\ envelope.asset_type = JString(args.asset_type.v)
        /\ envelope.asset_content = JString(args.asset_content.v)
        /\ \A i \in 1..4 : Position(ClarityQuestions[i]) > 0
        /\ \A i \in 1..3 : Position(ClarityQuestions[i]) < Position(ClarityQuestions[i + 1])
        /\ envelope.instructions = JString(FiveSecondInstructions)

\* the five-second test has run on a sales deck
C22_Witness ==
    /\ FiveSecondReturned
    /\ args.asset_type = PyStr(<<"sales_deck">>)
    /\ envelope.asset_type = JString(<<"sales_deck">>)
    /\ Contains(Instructions, <<"2. **Who is it for?** (clear/partial/unclear)">>)


DifferentiationReturned == Returned /\ op = "generate_differentiation_statements"

\* C23: for every value of competitive_alternative, the instructions of
\* generate_differentiation_statements hold that value as given, right after the
\* "Alternative: " label and before the capabilities line, with the product
\* description after "Product: " and the capability list, as Python prints a list,
\* after "Capabilities: ".
C23_AlternativeRenderedVerbatim ==
    DifferentiationReturned =>
        /\ Contains(Instructions, <<"Product: ">> \o args.product_description.v
                                  \o <<"Alternative: ">> \o args.competitive_alternative.v
                                  \o <<"Capabilities: ">> \o ReprList(args.unique_capabilities.v))
        /\ envelope.competitive_alternative = JString(args.competitive_alternative.v)

\* differentiation statements were generated against a non-empty alternative with a
\* non-empty capability list
C23_Witness ==
    /\ DifferentiationReturned
    /\ Len(args.competitive_alternative.v) > 0
    /\ Len(args.unique_capabilities.v) > 0
    /\ Contains(Instructions, <<"Alternative: ">> \o args.competitive_alternative.v)


FiveSecondQuestions == {"what_they_do", "who_its_for", "whats_different", "what_to_do_next"}

\* the number of questions a FiveSecondTest record judges clear
ClearCount(r) == Cardinality({q \in FiveSecondQuestions : r[q] = "clear"})

FiveSecondTestBuilt == cls = "FiveSecondTest" /\ validation = "ok"

\* C24: a five-second test passes only with four clear judgments out of four: a
\* FiveSecondTest record that was constructed has passed set only when all four
\* questions are judged clear, and the verdict rule of the instructions gives PASS
\* for its judgments only when all four are clear.
C24_PassNeedsFourClear ==
    FiveSecondTestBuilt =>
        /\ instance.passed => ClearCount(instance) = 4
        /\ FiveSecondVerdict(ClearCount(instance)) = "PASS" => ClearCount(instance) = 4


\* the loop of main has been entered and has ended
LoopEnded == pc = "exited" /\ ended.at \in {"prompt", "field", "invoke"}

\* an exception derived from Exception has just ended a turn
TurnFailed == ended.at \in {"prompt", "field", "invoke"} /\ IsException(ended.what)

\* C25 as stated: the loop ends only on an exit command or on a KeyboardInterrupt
\* raised at the main prompt or at a quick pick's follow-up prompt; any other
\* exception of a turn leaves the loop running.
C25_LoopEndsOnlyOnExitOrPromptInterrupt ==
    /\ LoopEnded => ended \in { At("prompt", "exit"), At("prompt", "KeyboardInterrupt"),
                                At("field", "KeyboardInterrupt") }
    /\ TurnFailed => pc = "prompt" /\ exitStatus = <<>>

\* C25, amended: the loop ends only on an exit command or on a KeyboardInterrupt,
\* raised at the main prompt, at a quick pick's follow-up prompt or while the agent
\* is invoked, each time with exit status 0; an exception derived from Exception
\* raised while reading input or handling a turn (end of input included) is caught
\* and the loop is back at its prompt, the process not ended.
C25_LoopEndsOnlyOnExitOrInterrupt ==
    /\ LoopEnded =>
            /\ \/ ended = At("prompt", "exit")
               \/ ended.what = "KeyboardInterrupt"
            /\ exitStatus = <<0>>
    /\ (ended.at \in {"prompt", "field", "invoke"} /\ ended.what = "KeyboardInterrupt")
            => LoopEnded
    /\ TurnFailed => pc = "prompt" /\ exitStatus = <<>>

\* the input ended at the main prompt twice in a row and the loop is still at its
\* prompt
C25_Witness ==
    /\ ended = At("prompt", "EOFError")
    /\ turns = 2
    /\ inputsRead = 0
    /\ pc = "prompt"


\* the tools documented as requiring a human's confirmation
HighStakes ==
    {"create_positioning_canvas", "create_messaging_framework", "create_homepage_wireframe"}

\* C26: whatever the mode and the two toggles, the confirmation map handed to the
\* agent constructor names exactly create_positioning_canvas,
\* create_messaging_framework and create_homepage_wireframe, and so never
\* generate_differentiation_statements; in modes 'create' and 'full' all three are
\* in the tool list handed over, in mode 'evaluate' none of them is.
C26_ConfirmationMapIsFixed ==
    factoryCalls > 0 =>
        /\ handed.interrupt_on = HighStakes
        /\ "generate_differentiation_statements" \notin handed.interrupt_on
        /\ factoryArgs.mode \in {"create", "full"} => HighStakes \subseteq Range(handed.tools)
        /\ factoryArgs.mode = "evaluate" => HighStakes \cap Range(handed.tools) = {}

\* an agent was built in mode 'evaluate' without memory and without subagents, and
\* the three confirmations were still requested
C26_Witness ==
    /\ factoryCalls > 0
    /\ factoryArgs.mode = "evaluate"
    /\ ~factoryArgs.use_memory
    /\ ~factoryArgs.include_subagents
    /\ handed.interrupt_on = HighStakes
    /\ HighStakes \cap Range(handed.tools) = {}


\* the tools of the specialist called n among the subagents handed over
ToolsOf(n) ==
    UNION {Range(handed.subagents[i].tools) :
            i \in {j \in 1..Len(handed.subagents) : handed.subagents[j].name = n}}

\* every tool some subagent handed over can call
ThroughSubagents == UNION {Range(handed.subagents[i].tools) : i \in 1..Len(handed.subagents)}

Delegating == factoryCalls > 0 /\ factoryArgs.include_subagents

\* C27: every tool of every subagent handed over is one of ALL_TOOLS, and the
\* subagents handed over are the same in every call that includes them, whatever
\* the mode; so in mode 'create' evaluation tools and web tools, none of them in
\* the top-level list, are reachable through subagents, and in mode 'evaluate'
\* create_positioning_canvas is reachable through positioning-analyst and
\* generate_differentiation_statements through positioning-analyst and
\* competitive-analyst, neither being in the top-level list.
C27_SubagentToolsIgnoreMode ==
    /\ Delegating => ThroughSubagents \subseteq Range(ALL_TOOLS)
    /\ \A i, j \in 1..Len(factoryLog) :
            (factoryLog[i].include_subagents /\ factoryLog[j].include_subagents)
                => factoryLog[i].subagents = factoryLog[j].subagents
    /\ (Delegating /\ factoryArgs.mode = "create") =>
            /\ ThroughSubagents \cap Range(EVALUATION_TOOLS) # {}
            /\ ThroughSubagents \cap Range(WEB_TOOLS) # {}
            /\ Range(handed.tools) \cap Range(EVALUATION_TOOLS \o WEB_TOOLS) = {}
    /\ (Delegating /\ factoryArgs.mode = "evaluate") =>
            /\ "create_positioning_canvas" \in ToolsOf("positioning-analyst")
            /\ "generate_differentiation_statements" \in ToolsOf("positioning-analyst")
            /\ "generate_differentiation_statements" \in ToolsOf("competitive-analyst")
            /\ "create_positioning_canvas" \notin Range(handed.tools)
            /\ "generate_differentiation_statements" \notin Range(handed.tools)

\* an agent built in mode 'evaluate' after one built in mode 'create', both with
\* subagents: the same subagents, a creation tool among their tools
C27_Witness ==
    /\ Len(factoryLog) = 2
    /\ factoryLog[1].mode = "create" /\ factoryLog[1].include_subagents
    /\ factoryLog[2].mode = "evaluate" /\ factoryLog[2].include_subagents
    /\ factoryLog[1].subagents = factoryLog[2].subagents
    /\ "create_positioning_canvas" \in ThroughSubagents
    /\ "create_positioning_canvas" \notin Range(handed.tools)


\* C28: the checkpointer handed to the agent constructor is True exactly when
\* use_memory is true and LANGGRAPH_API_URL was unset when the module was imported
\* (running_in_langgraph_api false), and None in every other case, for every mode
\* and every value of include_subagents.
C28_MemoryOnlyOutsideLanggraphApi ==
    factoryCalls > 0 =>
        /\ handed.checkpointer \in {"True", "None"}
        /\ handed.checkpointer = "True"
                <=> (factoryArgs.use_memory /\ ~running_in_langgraph_api)

\* memory was asked for under the LangGraph API, with subagents, and none was given
C28_Witness ==
    /\ factoryCalls > 0
    /\ factoryArgs.use_memory
    /\ factoryArgs.include_subagents
    /\ running_in_langgraph_api
    /\ handed.checkpointer = "None"


\* the calls logged with the given mode
CallsInMode(md) == {i \in 1..Len(factoryLog) : factoryLog[i].mode = md}

\* C29: create_pmm_agent rejects no mode: every call made has handed an assembly
\* to the agent constructor, and a call whose mode is neither 'evaluate' nor
\* 'create', an unrecognised string included, has handed over the full list of 17
\* tools, the same list, in the same order, as a call in mode 'full'.
C29_UnknownModeIsFull ==
    /\ Len(factoryLog) = factoryCalls
    /\ factoryCalls > 0 => handed # NoAssembly
    /\ \A i \in 1..Len(factoryLog) :
            factoryLog[i].mode \notin {"evaluate", "create"} =>
                /\ Len(factoryLog[i].tools) = 17
                /\ Cardinality(Range(factoryLog[i].tools)) = 17
                /\ \A j \in CallsInMode("full") : factoryLog[i].tools = factoryLog[j].tools

\* an agent was built with a mode that is none of the three documented ones, after
\* one built in mode 'full'
C29_Witness ==
    /\ factoryCalls = 2
    /\ factoryLog[1].mode = "full"
    /\ factoryLog[2].mode = "staging"
    /\ Len(handed.tools) = 17
    /\ factoryLog[2].tools = factoryLog[1].tools


\* two invocations have been made: the first, and another one
TwoInvocations == DOMAIN envelope # {} /\ other.op # NoCall

\* C30: the task tag of an envelope identifies the operation that produced it: two
\* invocations carry the same tag exactly when they are invocations of the same
\* operation, whatever their arguments; the tag is a non-empty string.
C30_TaskTagIdentifiesOperation ==
    /\ DOMAIN envelope # {} => NonEmptyString(envelope.task)
    /\ TwoInvocations => (other.task = envelope.task <=> other.op = op)

\* fetch_homepage, then fetch_competitor_homepage: different tags
C30_Witness ==
    /\ TwoInvocations
    /\ op = "fetch_homepage"
    /\ other.op = "fetch_competitor_homepage"
    /\ other.task = JString(<<"competitor_analysis">>)
    /\ envelope.task = JString(<<"fetch_homepage">>)

====
